---- MODULE Spec2Model ----
(***************************************************************************)
(* A model of the mymail backend (simophin/mymail, Rust).                  *)
(*                                                                         *)
(* Part I   JmapApi (src/backend/src/jmap_api.rs): the per-account         *)
(*          connection task (connect loop, backoff) and the websocket      *)
(*          request/response multiplexer it runs while connected.          *)
(* Part II  sync_mailbox_list (src/backend/src/sync/sync_mailbox_list.rs)  *)
(*          with Repository::update_mailboxes (repo/mailboxes.rs).         *)
(* Part III sync_mailbox and sync_mailbox_once                             *)
(*          (src/backend/src/sync/sync_mailboxes.rs) over the tables       *)
(*          emails and mailbox_emails (repo/emails.rs).                    *)
(* Part IV  the draft handlers (src/backend/src/api/drafts.rs), send_mail  *)
(*          (api/outbox.rs) and their detached tasks over the table        *)
(*          drafts (repo/drafts.rs) and the server's copies.               *)
(* Part V   the Store's change bus (src/backend/src/repo/mod.rs) with the  *)
(*          mutations of the Repository, and sync_accounts                 *)
(*          (src/backend/src/sync/sync_accounts.rs).                       *)
(* Part VI  sync_mailboxes, the router of the watcher requests             *)
(*          (src/backend/src/sync/sync_mailboxes.rs), with                 *)
(*          handle_watch_mailbox_command.                                  *)
(* Part VII sync_mailbox (src/backend/src/sync/sync_mailboxes.rs) over the *)
(*          push topic of the JmapApi with its capacity.                   *)
(* Part VIII the fetch loop of sync_mailbox_once                           *)
(*          (src/backend/src/sync/sync_mailboxes.rs) over lists of ids     *)
(*          longer than one get_emails request.                            *)
(* Part IX  the email_changes loop of sync_mailbox_once against a server   *)
(*          that answers Email/changes in pages.                           *)
(* Part X   the watchers of one mailbox: the handler of the route           *)
(*          (src/backend/src/api/sync_mailbox.rs), the forwarding task     *)
(*          handle_watch_mailbox_command and sync_mailbox                  *)
(*          (src/backend/src/sync/sync_mailboxes.rs).                      *)
(***************************************************************************)
EXTENDS Integers, Sequences, FiniteSets, TLC

(***************************************************************************)
(* Bounds of the model and program constants.                              *)
(***************************************************************************)
\* number of JMAP method calls the callers of one JmapApi issue
MaxRequests == 2
\* last instant of the discrete clock (seconds)
MaxTime == 12
\* number of method calls issued under SpecConn
MaxConnRequests == 1
\* largest number of method responses in one tagged response envelope
MaxEnvelope == 2
\* number of push notifications the server sends
MaxPush == 1
\* Duration::from_secs(10), jmap_api.rs:179, 218, 245
ConnectDelay == 10
\* mpsc::channel(100), jmap_api.rs:107
QueueCapacity == 100
\* number of mailbox ids the server ever uses
MaxMailboxes == 2
\* number of states (state tokens) the server goes through
MaxServerStates == 3
\* number of email ids the server ever uses
MaxEmails == 1
\* number of Email states (state tokens) the server goes through
MaxEmailStates == 2
\* number of watcher requests the router hands to the per-mailbox syncers
MaxWatchRequests == 2
\* number of requests the client sends to the draft and outbox handlers
MaxDraftCalls == 2
\* number of different EmailDraft payloads the client sends
MaxPayload == 2
\* last instant of the clock unixepoch() reads
MaxDraftTime == 1
\* number of account ids the table accounts ever uses
MaxAccounts == 2
\* number of mutations the callers of the Repository make
MaxMutations == 3
\* number of WatchMailbox commands the clients send
MaxWatchCommands == 2
\* number of times the set of mailbox ids in the Store changes
MaxMailboxChanges == 1
\* number of watcher requests one sync_mailbox is handed under SpecPushTopic
MaxTopicWatchers == 2
\* largest number of changes the server has made since the stored cursor
MaxLog == 3
\* largest number of ids that sync_mailbox_once has collected in updated
MaxFetch == 201
\* number of pushes with an Email entry published under SpecWatchers
MaxEmailPushes == 1
\* broadcast::channel(100), jmap_api.rs:109 (tokio may keep more values
\* than asked for; a receiver further behind than that lags all the same)
PushCapacity == 100
\* mpsc::channel(16), sync_account.rs:27
RouterQueueCapacity == 16
\* broadcast::channel(16), repo/mod.rs:42
ChangesCapacity == 16
\* mpsc::channel(10), sync_mailboxes.rs:77
WatcherQueueCapacity == 10
\* .take(200), sync_mailboxes.rs:263
GetBatch == 200

Requests == 1 .. MaxRequests
\* request ids carried by inbound responses; -1 stands for a response
\* without a request id (res.request_id() = None)
ResponseTags == -1 .. MaxRequests

VARIABLES
    \* ---- Part I: JmapApi ----
    alive,              \* the JmapApi value (and its JoinSet) has not been dropped
    online,             \* NetworkAvailability.online
    now,                \* Instant::now(), in seconds
    client_state,       \* the value of the watch channel client_state_tx
    pc,                 \* position of the task spawned in JmapApi::new
    deadline,           \* local delay_connect_until of the current iteration
    pending_requests,   \* the mpsc channel request_sender -> pending_requests_rx
    cur,                \* the request taken from the channel, being sent (0: none)
    callbacks,          \* HashMap<String, JmapRequestCallback> of the session
    next_tag,           \* request id the client library assigns next
    session,            \* number of sessions established so far
    st,                 \* per request: progress / result seen by its caller
    pushed,             \* push notifications published on notification_sender
    \* history of Part I
    accepted,           \* requests in the order they entered the channel
    wire,               \* requests in the order they were written to the websocket
    issued_offline,     \* requests issued while ClientState was not Connected
    answer,             \* per request: the response delivered to it
    nresults,           \* per request: number of results its callback was sent
    \* ---- Part II: sync_mailbox_list over the Store and the JMAP server ----
    srv_hist,           \* the server's mailbox snapshots; state token n names srv_hist[n]
    mailboxes,          \* table mailboxes of the account: id -> jmap_data (0: no row)
    mailboxes_sync_state,   \* accounts.mailboxes_sync_state (Option: {} is NULL)
    tx,                 \* the open sqlx transaction of update_mailboxes (Option)
    ml_pc,              \* position of the sync_mailbox_list task
    new_state,          \* local new_state of the round
    updated_ids,        \* local updated of the match: the ids to fetch
    updated,            \* local updated after get_mailboxes: the rows to upsert
    deleted,            \* local deleted
    push_sub,           \* Mailbox StateChange notifications buffered in push_sub
    changes_sent,       \* "mailboxes" change events sent by notify_changes
    \* history of Part II
    pre_rows,           \* table mailboxes when the round read the cursor
    pre_state,          \* mailboxes_sync_state when the round read it
    list_token,         \* server token at which the round's rows were fetched
    failed_at,          \* position at which the task last failed
    \* ---- Part III: sync_mailbox tasks over the Store and the JMAP server ----
    esrv_hist,          \* the server's email snapshots; Email state n names esrv_hist[n]
    emails,             \* table emails of the account: id -> jmap_data (NoEmail: no row)
    mailbox_emails,     \* table mailbox_emails of the account: set of <<mailbox_id, email_id>>
    email_sync_state,   \* per mailbox: mailboxes.email_sync_state (Option: {} is NULL)
    sm_pc,              \* per mailbox: position of its sync_mailbox task
    state_tx,           \* per mailbox: the values sent on state_tx, oldest first
    receivers,          \* per mailbox: state_tx.receiver_count()
    watcher_requests,   \* per mailbox: requests waiting in the channel watcher_requests
    wr_issued,          \* watcher requests routed to the syncers so far
    email_notification, \* per mailbox: Email StateChange pushes buffered in email_notification
    push_armed,         \* per mailbox: wait_for_push found receiver_count > 1 and awaits recv()
    e_updated,          \* per mailbox: local updated of sync_mailbox_once
    e_deleted,          \* per mailbox: local deleted
    e_new_state,        \* per mailbox: local new_state (0: not yet assigned)
    e_list,             \* per mailbox: local emails, the list get_emails returned
    \* history of Part III
    e_pre_state,        \* per mailbox: email_sync_state when the running sync_mailbox_once began
    e_done,             \* per mailbox: Store writes the running sync_mailbox_once has completed
    \* ---- Part IV: drafts of one account, their handlers and detached tasks ----
    drafts,             \* table drafts of the account: id -> row (NoDraft: no row)
    uuid,               \* number of ids Uuid::new_v4() has generated
    unixepoch,          \* the clock of unixepoch()
    remote,             \* the server's emails: id -> email (state "none": id not yet used)
    dr_tasks,           \* the tokio tasks spawned by the handlers and the running send_mail calls
    dr_calls,           \* number of requests the handlers have received
    has_api,            \* account_states.read().get(&account_id).is_some()
    dr_response,        \* the HTTP response of the handler that returned last
    \* history of Part IV
    destroy_issued,     \* remote ids for which delete_jmap_email was called
    last_create         \* per draft: the last of: "ok" a create_jmap_draft succeeded and
                        \* its id was stored, "failed" one failed, "cleared" a failed
                        \* update cleared the id
    \* ---- Part V: the Store's change bus and sync_accounts ----
VARIABLES
    accounts,           \* table accounts: id -> Account (NoAccount: no row)
    sent,               \* number of Changes values the bus has broadcast
    changes,            \* the receiver sync_accounts subscribed: values not yet received
    lagged,             \* the receiver has lost values it had not received
    states,             \* HashMap<AccountId, AccountState>: id -> tracked Account
    sa_pc,              \* position of sync_accounts
    sa_listed,          \* the result of list_accounts
    \* history of Part V
    mutations,          \* number of mutations made
    last_mutation,      \* the last mutation: the tables whose rows it changed and
                        \* the tables of the Changes value it broadcast
    received,           \* the numbers of the values sync_accounts received, in order
    sa_spawned          \* per account: number of sync_account tasks spawned
    \* ---- Part VI: sync_mailboxes and the watcher requests ----
VARIABLES
    mailbox_ids,        \* the ids of the rows of the table mailboxes
    sub,                \* Changes values naming "mailboxes" that sync_mailboxes has not received
    rt_pc,              \* position of sync_mailboxes
    mailbox_workers,    \* the keys of mailbox_workers
    running,            \* the mailboxes whose sync_mailbox task has not ended
    mailbox_watch_request_rx,  \* the requests in the channel to sync_mailboxes
    watch_request_rx,   \* per mailbox: the requests in the channel to its sync_mailbox
    wreq,               \* per request: its mailbox_id, what became of it, and the
                        \* mailbox of the sync_mailbox that answered it
    \* history of Part VI
    mailbox_changes,    \* number of changes of mailbox_ids
    rt_spawned          \* per mailbox: number of sync_mailbox tasks spawned
    \* ---- Part VII: one sync_mailbox and its receiver of the push topic ----
VARIABLES
    pt_pc,              \* position of sync_mailbox: "select", "sync_once" or "returned"
    pt_unread,          \* pushes in the topic that the receiver has not received
    pt_lagged,          \* pushes the receiver had not received were overwritten
    pt_receivers,       \* state_tx.receiver_count()
    pt_armed,           \* wait_for_push found receiver_count() > 1 when first polled
    pt_state,           \* the value of state_tx
    pt_requests,        \* watcher requests in the channel of the task
    \* history of Part VII
    pt_issued,          \* number of watcher requests handed to the task
    pt_end,             \* why the task ended ("none": it has not)
    pt_closed           \* every sender of the watcher-requests channel is dropped
    \* ---- Part VIII: the fetch loop of one sync_mailbox_once ----
VARIABLES
    fl_pc,              \* position of sync_mailbox_once: "while", "update_emails" or "done"
    fl_updated,         \* the Vec updated
    fl_emails,          \* the ids of the emails the last get_emails returned
    fl_stored,          \* the ids update_emails has been called with
    \* history of Part VIII
    fl_ids,             \* what updated held when the loop was entered
    fl_calls            \* the id lists of the get_emails calls, oldest first
    \* ---- Part IX: the email_changes loop of one sync_mailbox_once ----
VARIABLES
    cp_log,             \* the server's changes since the stored cursor, oldest first;
                        \* change i leads from Email state i to Email state i + 1
    cp_max_changes,     \* the largest number of changes the server puts in one response
    cp_pc,              \* position of sync_mailbox_once: "email_changes", "fetch" or "done"
    cp_last_state,      \* the local last_state
    cp_updated,         \* the ids in the Vec updated
    cp_deleted,         \* the ids in the Vec deleted
    cp_new_state,       \* the local new_state (0: not assigned)
    cp_cursor           \* mailboxes.email_sync_state of the mailbox
    \* ---- Part X: the watchers of one mailbox ----
VARIABLES
    wc_pc,              \* position of sync_mailbox: "select", "in_progress" or "sync_once"
    wc_state,           \* the value of state_tx of sync_mailbox
    wc_armed,           \* wait_for_push found receiver_count() > 1 when first polled
    wc_unread,          \* pushes with an Email entry the task has not received
    wc_requests,        \* the clients whose watcher request is in the channel of the task
    wc_rx,              \* the clients for which a receiver of state_tx is alive
    wc_unseen,          \* the clients whose receiver has not seen the value of state_tx
    fw_pc,              \* per client: position of handle_watch_mailbox_command
    ws_open,            \* the clients whose handler holds state_rx
    ws_state,           \* per client: the value of the state_tx of its command
    ws_unseen,          \* the clients whose state_rx has not seen that value
    \* history of Part X
    observed,           \* the values the handler of client 1 has observed, in order,
                        \* up to the first UpToDate or Error
    wc_first,           \* the result of the first call of sync_mailbox_once
    wc_pushes           \* number of pushes published

apiVars == <<alive, online, now, client_state, pc, deadline, pending_requests,
             cur, callbacks, next_tag, session, st, pushed,
             accepted, wire, issued_offline, answer, nresults>>

mlVars == <<srv_hist, mailboxes, mailboxes_sync_state, tx, ml_pc, new_state,
            updated_ids, updated, deleted, push_sub, changes_sent,
            pre_rows, pre_state, list_token, failed_at>>

emVars == <<esrv_hist, emails, mailbox_emails, email_sync_state, sm_pc,
            state_tx, receivers, watcher_requests, wr_issued,
            email_notification, push_armed, e_updated, e_deleted,
            e_new_state, e_list, e_pre_state, e_done>>

drVars == <<drafts, uuid, unixepoch, remote, dr_tasks, dr_calls, has_api,
            dr_response, destroy_issued, last_create>>

saVars == <<accounts, sent, changes, lagged, states, sa_pc, sa_listed,
            mutations, last_mutation, received, sa_spawned>>

rtVars == <<mailbox_ids, sub, rt_pc, mailbox_workers, running,
            mailbox_watch_request_rx, watch_request_rx, wreq, mailbox_changes,
            rt_spawned>>

\* the parts after Part IV
ptVars == <<pt_pc, pt_unread, pt_lagged, pt_receivers, pt_armed, pt_state,
            pt_requests, pt_issued, pt_end, pt_closed>>

flVars == <<fl_pc, fl_updated, fl_emails, fl_stored, fl_ids, fl_calls>>

cpVars == <<cp_log, cp_max_changes, cp_pc, cp_last_state, cp_updated,
            cp_deleted, cp_new_state, cp_cursor>>

wcVars == <<wc_pc, wc_state, wc_armed, wc_unread, wc_requests, wc_rx,
            wc_unseen, fw_pc, ws_open, ws_state, ws_unseen, observed, wc_first,
            wc_pushes>>

laterVars == <<saVars, rtVars, ptVars, flVars, cpVars, wcVars>>

\* what the actions of one part leave alone
notApi == <<mlVars, emVars, drVars, laterVars>>

notMl == <<apiVars, emVars, drVars, laterVars>>

notEm == <<apiVars, mlVars, drVars, laterVars>>

notDr == <<apiVars, mlVars, emVars, laterVars>>

notSa == <<apiVars, mlVars, emVars, drVars, rtVars, ptVars, flVars, cpVars,
          wcVars>>

notRt == <<apiVars, mlVars, emVars, drVars, saVars, ptVars, flVars, cpVars,
          wcVars>>

notPt == <<apiVars, mlVars, emVars, drVars, saVars, rtVars, flVars, cpVars,
          wcVars>>

notFl == <<apiVars, mlVars, emVars, drVars, saVars, rtVars, ptVars, cpVars,
          wcVars>>

notCp == <<apiVars, mlVars, emVars, drVars, saVars, rtVars, ptVars, flVars,
          wcVars>>

notWc == <<apiVars, mlVars, emVars, drVars, saVars, rtVars, ptVars, flVars,
          cpVars>>

vars == <<apiVars, mlVars, emVars, drVars, laterVars>>

(***************************************************************************)
(* Part I.  ClientState (jmap_api.rs:81-90)                                *)
(***************************************************************************)
\* Option<Instant> is a set with at most one element.
Disconnected(err, until) ==
    [kind |-> "Disconnected", last_error |-> err,
     delay_connect_until |-> until, client |-> 0]

Connnecting ==
    [kind |-> "Connecting", last_error |-> FALSE,
     delay_connect_until |-> {}, client |-> 0]

Connected(c) ==
    [kind |-> "Connected", last_error |-> FALSE,
     delay_connect_until |-> {}, client |-> c]

EmptyMap == [t \in {} |-> 0]

NoAnswer == [session |-> 0, tag |-> -1, method |-> "none"]

Range(f) == {f[x] : x \in DOMAIN f}

SeqRange(s) == {s[i] : i \in 1 .. Len(s)}

IsPrefix(s, t) == Len(s) <= Len(t) /\ SubSeq(t, 1, Len(s)) = s

(***************************************************************************)
(* Part II, state.  The JMAP server is a sequence of mailbox snapshots:    *)
(* snapshot[id] is 0 when the mailbox does not exist and otherwise the     *)
(* version of its metadata; the state token n names the n-th snapshot.     *)
(***************************************************************************)
MailboxIds == 1 .. MaxMailboxes

NoMailboxes == [id \in MailboxIds |-> 0]

Ids(rows) == {id \in MailboxIds : rows[id] # 0}

InitMl(snapshot) ==
    /\ srv_hist = <<snapshot>>
    /\ mailboxes = NoMailboxes
    /\ mailboxes_sync_state = {}
    /\ tx = {}
    /\ ml_pc = "start"
    /\ new_state = 0
    /\ updated_ids = {}
    /\ updated = NoMailboxes
    /\ deleted = {}
    /\ push_sub = 0
    /\ changes_sent = 0
    /\ pre_rows = NoMailboxes
    /\ pre_state = {}
    /\ list_token = 0
    /\ failed_at = "none"

(***************************************************************************)
(* Part III, state.  The JMAP server is a sequence of email snapshots; an  *)
(* email is a record of the version of its metadata (0: the email does not *)
(* exist), the mailbox it is in and whether it carries a subject.          *)
(***************************************************************************)
EmailIds == 1 .. MaxEmails

\* the mailboxes of the account that are in the Store; each has a
\* sync_mailbox task (sync_mailboxes.rs:75-94)
SyncedMailboxes == {1, 2}

NoEmail == [ver |-> 0, mbox |-> 0, subject |-> 0]

\* the emails with an odd id carry a Subject header, the others do not
SubjectOf(id) == id % 2

NoEmails == [id \in EmailIds |-> NoEmail]

EIds(rows) == {id \in EmailIds : rows[id] # NoEmail}

\* everything of Part III is the same for every mailbox
All(v) == [m \in SyncedMailboxes |-> v]

InitEm(snapshot) ==
    /\ esrv_hist = <<snapshot>>
    /\ emails = NoEmails
    /\ mailbox_emails = {}
    /\ email_sync_state = All({})
    /\ sm_pc = All("select")
    /\ state_tx = All(<<"NotStarted">>)
    /\ receivers = All(1)
    /\ watcher_requests = All(0)
    /\ wr_issued = 0
    /\ email_notification = All(0)
    /\ push_armed = All(FALSE)
    /\ e_updated = All({})
    /\ e_deleted = All({})
    /\ e_new_state = All(0)
    /\ e_list = All(NoEmails)
    /\ e_pre_state = All({})
    /\ e_done = All({})

(***************************************************************************)
(* Part IV, state.  A row of drafts is DraftRecord (repo/drafts.rs:6-12);  *)
(* jmap_email_id = 0 is NULL.  An EmailDraft payload is a number.          *)
(***************************************************************************)
\* the ids Uuid::new_v4() generates: the model follows one draft, the rows
\* of the others are out of reach of every statement (WHERE id = ?)
DraftIds == {1}

Payloads == 1 .. MaxPayload

Instants == 0 .. MaxDraftTime

\* every create_email_inner makes one email, and every request makes at
\* most one create_email_inner; one more for a copy made earlier
RemoteIds == 1 .. MaxDraftCalls + 1

NoDraft == [jmap_email_id |-> 0, data |-> 0, updated_at |-> 0]

NoRemote ==
    [state |-> "none", data |-> 0, mailbox_id |-> "none", is_draft |-> FALSE,
     submitted |-> FALSE]

\* no handler has returned yet
NoResponse == [status |-> 0, id |-> 0, jmap_email_id |-> 0, data |-> 0,
               updated_at |-> 0, synced |-> FALSE, email_id |-> 0]

AccountIds == 1 .. MaxAccounts

\* accounts.url: two urls Url::parse accepts and one it rejects
Urls == {"https://a.example", "https://b.example", "not a url"}

Account == [server_url : Urls]

NoAccount == [server_url |-> "none"]

NoMutation == [changed |-> {}, tables |-> {}]

\* the table accounts as the database file holds it when the backend starts
InitSa(rows) ==
    /\ accounts = rows
    /\ sent = 0
    /\ changes = << >>
    /\ lagged = FALSE
    /\ states = [id \in AccountIds |-> NoAccount]
    /\ sa_pc = "list_accounts"
    /\ sa_listed = [id \in AccountIds |-> NoAccount]
    /\ mutations = 0
    /\ last_mutation = NoMutation
    /\ received = << >>
    /\ sa_spawned = [id \in AccountIds |-> 0]

NoAccounts == [id \in AccountIds |-> NoAccount]

\* the mailbox ids the requests and the table mailboxes use
RtMailboxIds == {1, 2}

WatchCommands == 1 .. MaxWatchCommands

NoWatchRequest == [mailbox_id |-> 0, status |-> "idle", by |-> 0]

\* sync_mailboxes starts with the mailboxes `ids` in the Store
InitRt(ids) ==
    /\ mailbox_ids = ids
    /\ sub = 0
    /\ rt_pc = "get_mailbox_ids"
    /\ mailbox_workers = {}
    /\ running = {}
    /\ mailbox_watch_request_rx = << >>
    /\ watch_request_rx = [m \in RtMailboxIds |-> << >>]
    /\ wreq = [r \in WatchCommands |-> NoWatchRequest]
    /\ mailbox_changes = 0
    /\ rt_spawned = [m \in RtMailboxIds |-> 0]

\* sync_mailbox starts: state_tx holds NotStarted and has the receiver
\* _state_rx, the receiver of the push topic was resubscribed just now
InitPt ==
    /\ pt_pc = "select"
    /\ pt_unread = 0
    /\ pt_lagged = FALSE
    /\ pt_receivers = 1
    /\ pt_armed = FALSE
    /\ pt_state = "NotStarted"
    /\ pt_requests = 0
    /\ pt_issued = 0
    /\ pt_end = "none"
    /\ pt_closed = FALSE

\* sync_mailbox_once reaches its while loop with the ids 1 .. n in updated
InitFl(n) ==
    /\ fl_pc = "while"
    /\ fl_updated = [i \in 1 .. n |-> i]
    /\ fl_emails = {}
    /\ fl_stored = {}
    /\ fl_ids = 1 .. n
    /\ fl_calls = << >>

\* sync_mailbox_once has read the cursor, Email state 1, and the server has
\* made the changes `log` since then
InitCp(log, max_changes) ==
    /\ cp_log = log
    /\ cp_max_changes = max_changes
    /\ cp_pc = "email_changes"
    /\ cp_last_state = 1
    /\ cp_updated = {}
    /\ cp_deleted = {}
    /\ cp_new_state = 0
    /\ cp_cursor = 1

\* the clients that open the route of the mailbox, in this order
Clients == {1, 2}

\* sync_mailbox has just been spawned for a mailbox that was never synced;
\* no client has opened the route
InitWc ==
    /\ wc_pc = "select"
    /\ wc_state = "NotStarted"
    /\ wc_armed = FALSE
    /\ wc_unread = 0
    /\ wc_requests = << >>
    /\ wc_rx = {}
    /\ wc_unseen = {}
    /\ fw_pc = [c \in Clients |-> "idle"]
    /\ ws_open = {}
    /\ ws_state = [c \in Clients |-> "NotStarted"]
    /\ ws_unseen = {}
    /\ observed = << >>
    /\ wc_first = "none"
    /\ wc_pushes = 0

\* the parts after Part IV at rest
InitLater ==
    /\ InitSa(NoAccounts) /\ InitRt({}) /\ InitPt /\ InitFl(0) /\ InitCp(<< >>, 1)
    /\ InitWc

InitDr ==
    /\ drafts = [id \in DraftIds |-> NoDraft]
    /\ uuid = 0
    /\ unixepoch = 0
    /\ remote = [r \in RemoteIds |-> NoRemote]
    /\ dr_tasks = << >>
    /\ dr_calls = 0
    /\ has_api = TRUE
    /\ dr_response = NoResponse
    /\ destroy_issued = {}
    /\ last_create = [id \in DraftIds |-> "none"]

InitApi(on) ==
    /\ alive = TRUE
    /\ online = on
    /\ now = 0
    /\ client_state = Disconnected(FALSE, {})
    /\ pc = "wait_online"
    /\ deadline = {}
    /\ pending_requests = <<>>
    /\ cur = 0
    /\ callbacks = EmptyMap
    /\ next_tag = 0
    /\ session = 0
    /\ st = [r \in Requests |-> "idle"]
    /\ pushed = 0
    /\ accepted = <<>>
    /\ wire = <<>>
    /\ issued_offline = {}
    /\ answer = [r \in Requests |-> NoAnswer]
    /\ nresults = [r \in Requests |-> 0]

(***************************************************************************)
(* Environment of the task: network signal, clock.                         *)
(***************************************************************************)
NetworkChange ==
    /\ alive
    /\ online' = ~online
    /\ UNCHANGED notApi
    /\ UNCHANGED <<issued_offline, alive, now, client_state, pc, deadline, pending_requests,
                   cur, callbacks, next_tag, session, st, pushed,
                   accepted, wire, answer, nresults>>

\* The clock advances by step seconds, up to limit.
Tick(step, limit) ==
    /\ alive
    /\ now + step <= limit
    /\ now' = now + step
    /\ UNCHANGED notApi
    /\ UNCHANGED <<issued_offline, alive, online, client_state, pc, deadline, pending_requests,
                   cur, callbacks, next_tag, session, st, pushed,
                   accepted, wire, answer, nresults>>

(***************************************************************************)
(* The connect loop (jmap_api.rs:124-183)                                  *)
(***************************************************************************)
\* jmap_api.rs:125-133: the deadline stored in the current ClientState
DelayOf(cs) ==
    IF cs.kind = "Disconnected" THEN cs.delay_connect_until ELSE {}

WaitOnline_NoGuard ==
    /\ alive
    /\ pc = "wait_online"
    /\ deadline' = DelayOf(client_state)
    /\ IF DelayOf(client_state) = {}
       THEN /\ client_state' = Connnecting
            /\ pc' = "connecting"
       ELSE /\ pc' = "sleep"
            /\ UNCHANGED client_state
    /\ UNCHANGED notApi
    /\ UNCHANGED <<issued_offline, alive, online, now, pending_requests, cur, callbacks,
                   next_tag, session, st, pushed,
                   accepted, wire, answer, nresults>>

\* network_availability.wait_for(|a| a.online) returns; the stored deadline
\* is read; without a deadline nothing is awaited before Connnecting is sent.
WaitOnline ==
    /\ alive
    /\ pc = "wait_online"
    /\ online
    /\ deadline' = DelayOf(client_state)
    /\ IF DelayOf(client_state) = {}
       THEN /\ client_state' = Connnecting
            /\ pc' = "connecting"
       ELSE /\ pc' = "sleep"
            /\ UNCHANGED client_state
    /\ UNCHANGED notApi
    /\ UNCHANGED <<issued_offline, alive, online, now, pending_requests, cur, callbacks,
                   next_tag, session, st, pushed,
                   accepted, wire, answer, nresults>>

SleepDone_NoWait ==
    /\ alive
    /\ pc = "sleep"
    /\ client_state' = Connnecting
    /\ pc' = "connecting"
    /\ UNCHANGED notApi
    /\ UNCHANGED <<issued_offline, alive, online, now, deadline, pending_requests, cur,
                   callbacks, next_tag, session, st, pushed,
                   accepted, wire, answer, nresults>>

\* sleep_until(deadline) returns, then client_state_tx.send(Connnecting)
SleepDone ==
    /\ alive
    /\ pc = "sleep"
    /\ \A d \in deadline : now >= d
    /\ client_state' = Connnecting
    /\ pc' = "connecting"
    /\ UNCHANGED notApi
    /\ UNCHANGED <<issued_offline, alive, online, now, deadline, pending_requests, cur,
                   callbacks, next_tag, session, st, pushed,
                   accepted, wire, answer, nresults>>

\* connect, connect_ws and enable_push_ws all succeeded
ConnectOk ==
    /\ alive
    /\ pc = "connecting"
    /\ client_state' = Connected(session + 1)
    /\ session' = session + 1
    /\ callbacks' = EmptyMap
    /\ next_tag' = 0
    /\ pc' = "mux"
    /\ UNCHANGED notApi
    /\ UNCHANGED <<issued_offline, alive, online, now, deadline, pending_requests, cur, st,
                   pushed, accepted, wire, answer, nresults>>

\* one of the three connect steps failed
ConnectFail ==
    /\ alive
    /\ pc = "connecting"
    /\ client_state' = Disconnected(TRUE, {now + ConnectDelay})
    /\ pc' = "wait_online"
    /\ UNCHANGED notApi
    /\ UNCHANGED <<issued_offline, alive, online, now, deadline, pending_requests, cur,
                   callbacks, next_tag, session, st, pushed,
                   accepted, wire, answer, nresults>>

(***************************************************************************)
(* The multiplexer loop (jmap_api.rs:185-255)                              *)
(***************************************************************************)
\* callback.send(res): the oneshot of request r receives its one value
Deliver(stf, r, res) == [stf EXCEPT ![r] = res]

\* The callbacks map goes out of scope (end of the while body, or the task
\* returns): every oneshot sender in it is dropped and the caller's resp_rx
\* ends with a receive error.
StAfterDrop(stf, dropped) ==
    [r \in Requests |-> IF r \in dropped THEN "dropped" ELSE stf[r]]

CountDrop(cnt, dropped) ==
    [r \in Requests |-> IF r \in dropped /\ cnt[r] < 2 THEN cnt[r] + 1 ELSE cnt[r]]

\* Vec::pop() on a Vec of n elements: the position of the element it
\* returns (the last one), 0 for None
Pop(n) == n

\* where in its envelope the method response at position i stands
Place(i) == IF i = 0 THEN "none" ELSE IF i = 1 THEN "first" ELSE "later"

MuxResponse_NoRemove(tag, n) ==
    /\ alive
    /\ pc = "mux"
    /\ IF tag \in DOMAIN callbacks
       THEN LET r == callbacks[tag] IN
            /\ UNCHANGED callbacks
            /\ st' = Deliver(st, r, IF n > 0 THEN "ok" ELSE "empty")
            /\ answer' = [answer EXCEPT ![r] =
                   [session |-> session, tag |-> tag, method |-> Place(Pop(n))]]
            /\ nresults' = CountDrop(nresults, {r})
       ELSE UNCHANGED <<callbacks, st, answer, nresults>>
    /\ UNCHANGED notApi
    /\ UNCHANGED <<issued_offline, alive, online, now, client_state, pc, deadline,
                   pending_requests, cur, next_tag, session, pushed,
                   accepted, wire>>

\* Either::Left(Some(Ok(Response(res)))), jmap_api.rs:190-204.  n is the
\* number of method responses of the envelope; pop() takes the last one.
\* answer records which method response of how many the callback was sent.
MuxResponse(tag, n) ==
    /\ alive
    /\ pc = "mux"
    /\ IF tag \in DOMAIN callbacks
       THEN LET r == callbacks[tag] IN
            /\ callbacks' = [t \in DOMAIN callbacks \ {tag} |-> callbacks[t]]
            /\ st' = Deliver(st, r, IF n > 0 THEN "ok" ELSE "empty")
            /\ answer' = [answer EXCEPT ![r] =
                   [session |-> session, tag |-> tag, method |-> Place(Pop(n))]]
            /\ nresults' = CountDrop(nresults, {r})
       ELSE UNCHANGED <<callbacks, st, answer, nresults>>
    /\ UNCHANGED notApi
    /\ UNCHANGED <<issued_offline, alive, online, now, client_state, pc, deadline,
                   pending_requests, cur, next_tag, session, pushed,
                   accepted, wire>>

\* Either::Left(Some(Ok(PushNotification(push)))), jmap_api.rs:206-211
MuxPush ==
    /\ alive
    /\ pc = "mux"
    /\ pushed < MaxPush
    /\ pushed' = pushed + 1
    /\ UNCHANGED notApi
    /\ UNCHANGED <<issued_offline, alive, online, now, client_state, pc, deadline,
                   pending_requests, cur, callbacks, next_tag, session, st,
                   accepted, wire, answer, nresults>>

MuxStreamError_NoPublish ==
    /\ alive
    /\ pc = "mux"
    /\ UNCHANGED client_state
    /\ st' = StAfterDrop(st, Range(callbacks))
    /\ nresults' = CountDrop(nresults, Range(callbacks))
    /\ callbacks' = EmptyMap
    /\ pc' = "wait_online"
    /\ UNCHANGED notApi
    /\ UNCHANGED <<issued_offline, alive, online, now, deadline, pending_requests, cur,
                   next_tag, session, pushed,
                   accepted, wire, answer>>

MuxStreamError_KeepCallbacks ==
    /\ alive
    /\ pc = "mux"
    /\ client_state' = Disconnected(TRUE, {now + ConnectDelay})
    /\ pc' = "wait_online"
    /\ UNCHANGED notApi
    /\ UNCHANGED <<issued_offline, alive, online, now, deadline, pending_requests, cur,
                   callbacks, next_tag, session, st, pushed,
                   accepted, wire, answer, nresults>>

\* Either::Left(Some(Err(e))), jmap_api.rs:213-222: Disconnected is sent and
\* the loop is left; callbacks is dropped at the end of the while body.
MuxStreamError ==
    /\ alive
    /\ pc = "mux"
    /\ client_state' = Disconnected(TRUE, {now + ConnectDelay})
    /\ st' = StAfterDrop(st, Range(callbacks))
    /\ nresults' = CountDrop(nresults, Range(callbacks))
    /\ callbacks' = EmptyMap
    /\ pc' = "wait_online"
    /\ UNCHANGED notApi
    /\ UNCHANGED <<issued_offline, alive, online, now, deadline, pending_requests, cur,
                   next_tag, session, pushed,
                   accepted, wire, answer>>

\* Either::Left(None), jmap_api.rs:224-227: the websocket stream ended; the
\* task returns.  Nothing is sent on client_state_tx; callbacks and
\* pending_requests_rx (with the requests still in the channel) are dropped.
MuxStreamClosed ==
    /\ alive
    /\ pc = "mux"
    /\ pc' = "returned"
    /\ st' = StAfterDrop(st, Range(callbacks) \cup SeqRange(pending_requests))
    /\ nresults' = CountDrop(nresults,
                             Range(callbacks) \cup SeqRange(pending_requests))
    /\ callbacks' = EmptyMap
    /\ pending_requests' = <<>>
    /\ UNCHANGED notApi
    /\ UNCHANGED <<issued_offline, alive, online, now, client_state, deadline, cur, next_tag,
                   session, pushed, accepted, wire, answer>>

MuxRecvRequest_Last ==
    /\ alive
    /\ pc = "mux"
    /\ pending_requests # <<>>
    /\ cur' = pending_requests[Len(pending_requests)]
    /\ pending_requests' = SubSeq(pending_requests, 1, Len(pending_requests) - 1)
    /\ st' = [st EXCEPT ![pending_requests[Len(pending_requests)]] = "sending"]
    /\ pc' = "sending"
    /\ UNCHANGED notApi
    /\ UNCHANGED <<issued_offline, alive, online, now, client_state, deadline, callbacks,
                   next_tag, session, pushed,
                   accepted, wire, answer, nresults>>

\* Either::Right(Some((req_builder, callback))), jmap_api.rs:229-232: the
\* head of the channel is taken and req.send_ws() is awaited.
MuxRecvRequest ==
    /\ alive
    /\ pc = "mux"
    /\ pending_requests # <<>>
    /\ cur' = Head(pending_requests)
    /\ pending_requests' = Tail(pending_requests)
    /\ st' = [st EXCEPT ![Head(pending_requests)] = "sending"]
    /\ pc' = "sending"
    /\ UNCHANGED notApi
    /\ UNCHANGED <<issued_offline, alive, online, now, client_state, deadline, callbacks,
                   next_tag, session, pushed,
                   accepted, wire, answer, nresults>>

\* send_ws() returned Ok(request_id), jmap_api.rs:233-235
MuxSendOk ==
    /\ alive
    /\ pc = "sending"
    /\ callbacks' = [t \in DOMAIN callbacks \cup {next_tag} |->
                        IF t = next_tag THEN cur ELSE callbacks[t]]
    /\ wire' = Append(wire, [req |-> cur, session |-> session, tag |-> next_tag])
    /\ next_tag' = next_tag + 1
    /\ st' = [st EXCEPT ![cur] = "inflight"]
    /\ cur' = 0
    /\ pc' = "mux"
    /\ UNCHANGED notApi
    /\ UNCHANGED <<issued_offline, alive, online, now, client_state, deadline,
                   pending_requests, session, pushed,
                   accepted, answer, nresults>>

\* send_ws() returned Err(e), jmap_api.rs:236-251: Disconnected is sent, the
\* caller's oneshot gets the error, the loop is left and callbacks dropped.
MuxSendErr ==
    /\ alive
    /\ pc = "sending"
    /\ client_state' = Disconnected(TRUE, {now + ConnectDelay})
    /\ st' = StAfterDrop(Deliver(st, cur, "transport"), Range(callbacks))
    /\ nresults' = CountDrop(nresults, Range(callbacks) \cup {cur})
    /\ callbacks' = EmptyMap
    /\ cur' = 0
    /\ pc' = "wait_online"
    /\ UNCHANGED notApi
    /\ UNCHANGED <<issued_offline, alive, online, now, deadline, pending_requests, next_tag,
                   session, pushed, accepted, wire, answer>>

(***************************************************************************)
(* Callers and owner of the JmapApi                                        *)
(***************************************************************************)
SendWsRequest_RejectOffline(r) ==
    /\ alive
    /\ st[r] = "idle"
    /\ issued_offline' = IF client_state.kind = "Connected" THEN issued_offline
                       ELSE issued_offline \cup {r}
    /\ IF pc = "returned" \/ client_state.kind # "Connected"
       THEN /\ st' = [st EXCEPT ![r] = "queue_failed"]
            /\ nresults' = CountDrop(nresults, {r})
            /\ UNCHANGED <<pending_requests, accepted>>
       ELSE /\ Len(pending_requests) < QueueCapacity
            /\ pending_requests' = Append(pending_requests, r)
            /\ accepted' = Append(accepted, r)
            /\ st' = [st EXCEPT ![r] = "queued"]
            /\ UNCHANGED nresults
    /\ UNCHANGED notApi
    /\ UNCHANGED <<alive, online, now, client_state, pc, deadline, cur,
                   callbacks, next_tag, session, pushed, wire, answer>>

\* JmapApi::send_ws_request, jmap_api.rs:277-298: the request and its oneshot
\* are sent into the channel whatever the ClientState is; the send fails only
\* when the receiver is gone (the task has returned).
SendWsRequest(r) ==
    /\ alive
    /\ st[r] = "idle"
    /\ issued_offline' = IF client_state.kind = "Connected" THEN issued_offline
                       ELSE issued_offline \cup {r}
    /\ IF pc = "returned"
       THEN /\ st' = [st EXCEPT ![r] = "queue_failed"]
            /\ nresults' = CountDrop(nresults, {r})
            /\ UNCHANGED <<pending_requests, accepted>>
       ELSE /\ Len(pending_requests) < QueueCapacity
            /\ pending_requests' = Append(pending_requests, r)
            /\ accepted' = Append(accepted, r)
            /\ st' = [st EXCEPT ![r] = "queued"]
            /\ UNCHANGED nresults
    /\ UNCHANGED notApi
    /\ UNCHANGED <<alive, online, now, client_state, pc, deadline, cur,
                   callbacks, next_tag, session, pushed, wire, answer>>

Waiting(r) == st[r] \in {"queued", "sending", "inflight"}

\* The last Arc<JmapApi> is dropped (sync_accounts.rs:33-39): no method call
\* is in progress (each borrows the JmapApi); dropping the JoinSet aborts
\* the task.
DropApi ==
    /\ alive
    /\ \A r \in Requests : ~Waiting(r)
    /\ alive' = FALSE
    /\ pc' = "returned"
    /\ callbacks' = EmptyMap
    /\ UNCHANGED notApi
    /\ UNCHANGED <<issued_offline, online, now, client_state, deadline, pending_requests, cur,
                   next_tag, session, st, pushed,
                   accepted, wire, answer, nresults>>

\* Steps of the task itself, whatever the environment does.
TaskStep ==
    \/ WaitOnline
    \/ SleepDone
    \/ ConnectOk
    \/ ConnectFail
    \/ \E tag \in ResponseTags, n \in 0 .. MaxEnvelope : MuxResponse(tag, n)
    \/ MuxPush
    \/ MuxStreamError
    \/ MuxStreamClosed
    \/ MuxRecvRequest
    \/ MuxSendOk
    \/ MuxSendErr

\* The connection task under a one-second clock, with few callers.
NextConn ==
    \/ NetworkChange
    \/ Tick(1, MaxTime)
    \/ TaskStep
    \/ \E r \in 1 .. MaxConnRequests : SendWsRequest(r)
    \/ DropApi

InitConn ==
    /\ \E on \in BOOLEAN : InitApi(on)
    /\ InitMl(NoMailboxes)
    /\ InitEm(NoEmails)
    /\ InitDr
    /\ InitLater

SpecConn == InitConn /\ [][NextConn]_vars

\* The multiplexer under a clock that advances one backoff at a time, with
\* MaxRequests callers.
NextMux ==
    \/ NetworkChange
    \/ Tick(ConnectDelay, MaxTime)
    \/ TaskStep
    \/ \E r \in Requests : SendWsRequest(r)

SpecMux == InitConn /\ [][NextMux]_vars

(***************************************************************************)
(* Properties of Part I                                                    *)
(***************************************************************************)
MuxRunning == pc \in {"mux", "sending"}

Published == client_state' # client_state

Pos(seq, x) == CHOOSE i \in 1 .. Len(seq) : seq[i] = x

Final(r) == st[r] \in {"ok", "empty", "transport", "dropped", "queue_failed"}

\* C1: whenever the multiplexer stops while the JmapApi is alive (stream
\* error, end of stream, send error), Disconnected with
\* delay_connect_until = now + 10 s is published and the task goes back to
\* the connect loop, so ClientState is not left Connected.
C1_MuxExitPublishesDisconnected ==
    [][(MuxRunning /\ ~MuxRunning' /\ alive') =>
          /\ client_state' = Disconnected(TRUE, {now' + ConnectDelay})
          /\ pc' = "wait_online"]_vars

\* C2: the ClientState channel starts at Disconnected{None, None}; Connecting
\* is published only over Disconnected, Connected only over Connecting, and
\* Connected is only ever replaced by Disconnected (a failed attempt goes
\* Connecting -> Disconnected).
C2_ClientStateCycle ==
    /\ client_state = Disconnected(FALSE, {})
    /\ [][Published =>
            /\ client_state'.kind = "Connecting" => client_state.kind = "Disconnected"
            /\ client_state'.kind = "Connected" => client_state.kind = "Connecting"
            /\ client_state.kind = "Connected" => client_state'.kind = "Disconnected"
            /\ client_state'.kind = "Disconnected" =>
                    client_state.kind \in {"Connecting", "Connected"}]_vars

\* a second session is Connected: the cycle has been walked once in full
C2_Witness ==
    /\ client_state.kind = "Connected"
    /\ session = 2

\* C3: a response with tag t is delivered only to the request that was sent
\* with tag t in the current session, no caller gets more than one result,
\* and a request that has its result is no longer in the callbacks map.
C3_TagCorrelation ==
    /\ \A r \in Requests : answer[r] # NoAnswer =>
          [req |-> r, session |-> answer[r].session, tag |-> answer[r].tag]
              \in SeqRange(wire)
    /\ \A r \in Requests : nresults[r] <= 1
    /\ \A r \in Requests : Final(r) => r \notin Range(callbacks)
    /\ \A t \in DOMAIN callbacks :
          [req |-> callbacks[t], session |-> session, tag |-> t] \in SeqRange(wire)

\* the response to the second request of a session arrived before the
\* response to the first one
C3_Witness ==
    \E r1, r2 \in Requests :
        /\ st[r1] = "inflight"
        /\ st[r2] = "ok"
        /\ answer[r2].session = session
        /\ answer[r2].tag = 1
        /\ [req |-> r1, session |-> session, tag |-> 0] \in SeqRange(wire)

\* C4: a caller waits for a response only while the session that sent its
\* request is running; when that session ends by a stream error or a send
\* error its wait has ended with an error, and a later session holds no
\* callback of it.
C4_InFlightFailOnLoss ==
    \A r \in Requests : st[r] = "inflight" =>
        /\ MuxRunning
        /\ client_state = Connected(session)
        /\ \E t \in DOMAIN callbacks :
              /\ callbacks[t] = r
              /\ [req |-> r, session |-> session, tag |-> t] \in SeqRange(wire)

\* a request in flight in session 1 ended with an error when that session
\* was lost, and session 2 has another request in flight under the same tag
C4_Witness ==
    \E r1, r2 \in Requests :
        /\ st[r1] = "dropped"
        /\ [req |-> r1, session |-> 1, tag |-> 0] \in SeqRange(wire)
        /\ session = 2
        /\ st[r2] = "inflight"
        /\ [req |-> r2, session |-> 2, tag |-> 0] \in SeqRange(wire)

\* C5: requests are written to the websocket in the order in which they
\* entered the channel, with request ids increasing within a session, and
\* the channel holds the accepted requests not yet taken, in their order.
C5_FifoOnWire ==
    /\ \A i, j \in 1 .. Len(wire) : i < j =>
          /\ Pos(accepted, wire[i].req) < Pos(accepted, wire[j].req)
          /\ wire[i].session <= wire[j].session
          /\ wire[i].session = wire[j].session => wire[i].tag < wire[j].tag
    /\ \E k \in 0 .. Len(accepted) :
          pending_requests = SubSeq(accepted, k + 1, Len(accepted))
          \/ pending_requests = <<>>

\* two requests were written in one session, the higher-numbered one first
C5_Witness ==
    /\ Len(wire) = 2
    /\ wire[1].session = wire[2].session
    /\ wire[1].req > wire[2].req

\* C6 as stated: a call issued while ClientState is not Connected never
\* enters the outbound channel.
C6_NothingQueuedWhileDisconnected ==
    \A r \in issued_offline : r \notin SeqRange(accepted)

\* C6 amended: a call issued while ClientState is not Connected enters the
\* channel like any other (unless the task has returned), the channel only
\* grows while ClientState is not Connected, and such a call stays in it
\* until a multiplexer takes it.
C6_QueuedWhileDisconnectedIsRetained ==
    /\ [][/\ (client_state.kind # "Connected" \/ client_state'.kind # "Connected")
                => IsPrefix(pending_requests, pending_requests')
          /\ \A r \in Requests :
                (st[r] = "idle" /\ st'[r] # "idle" /\ pc # "returned") =>
                    /\ st'[r] = "queued"
                    /\ pending_requests' = Append(pending_requests, r)]_vars
    /\ [](\A r \in issued_offline :
            st[r] = "queued" => r \in SeqRange(pending_requests))

\* a call issued while not Connected was sent and answered in a later session
C6_Witness ==
    \E r \in issued_offline : st[r] = "ok"

\* C7 as stated: Connecting is published only while the network signal
\* reports online.
C7_ConnectingOnlyWhenOnline ==
    [][(Published /\ client_state'.kind = "Connecting") => online']_vars

\* C7 amended: the task leaves wait_for(online) only while the signal
\* reports online, and Connecting is published either at that moment or at
\* the end of the backoff sleep that follows it.
C7_ConnectingAfterOnlineObserved ==
    [][/\ (pc = "wait_online" /\ pc' # "wait_online" /\ alive') => online
       /\ (Published /\ client_state'.kind = "Connecting") =>
              (online \/ pc = "sleep")]_vars

\* an attempt that was started after a backoff sleep, with the signal offline
C7_Witness ==
    /\ pc = "connecting"
    /\ deadline # {}
    /\ ~online

\* C8: a Disconnected published at time t by a failed attempt or a
\* multiplexer error carries the deadline t + 10 s, and Connecting is not
\* published over it before that deadline.
C8_BackoffFloor ==
    [][/\ (Published /\ client_state'.kind = "Disconnected") =>
              client_state'.delay_connect_until = {now' + ConnectDelay}
       /\ (Published /\ client_state'.kind = "Connecting") =>
              \A d \in DelayOf(client_state) : now' >= d]_vars

\* an attempt published at the very instant its deadline was reached
C8_Witness ==
    /\ pc = "connecting"
    /\ deadline = {now}
    /\ now >= ConnectDelay

\* the caller of request r is sent the result of a tagged response
Answered(r) ==
    /\ nresults'[r] = nresults[r] + 1
    /\ st'[r] \in {"ok", "empty"}

\* C31: a tagged response whose tag is pending gives the waiting caller
\* exactly one method response, the first one of the envelope whatever the
\* number of method responses in it; an empty envelope gives that caller an
\* error and leaves the connection and every other pending request as they
\* were.
C31_FirstMethodResponseDelivered ==
    [][\A r \in Requests : Answered(r) =>
          /\ nresults'[r] = 1
          /\ r \notin Range(callbacks')
          /\ st'[r] = "ok" => answer'[r].method = "first"
          /\ st'[r] = "empty" =>
                /\ answer'[r].method = "none"
                /\ client_state' = client_state
                /\ pc' = pc
                /\ \A o \in Requests \ {r} : st'[o] = st[o]
                /\ \A t \in DOMAIN callbacks :
                      callbacks[t] # r =>
                          (t \in DOMAIN callbacks' /\ callbacks'[t] = callbacks[t])]_vars

(***************************************************************************)
(* Part II.  The JMAP server as sync_mailbox_list sees it                  *)
(***************************************************************************)
SrvToken == Len(srv_hist)

SrvCur == srv_hist[Len(srv_hist)]

\* The server moves to a new state; a StateChange push with a Mailbox entry
\* reaches the subscription of the running task, or is lost with the
\* connection.
ServerStep(next, d) ==
    /\ Len(srv_hist) < MaxServerStates
    /\ srv_hist' = Append(srv_hist, next)
    /\ d \in (IF ml_pc = "failed" THEN {0} ELSE {0, 1})
    /\ push_sub' = push_sub + d
    /\ UNCHANGED notMl
    /\ UNCHANGED <<mailboxes, mailboxes_sync_state, tx, ml_pc, new_state,
                   updated_ids, updated, deleted, changes_sent,
                   pre_rows, pre_state, list_token, failed_at>>

\* a mailbox id is never used again once destroyed
ServerCreate(id, d) ==
    /\ \A i \in 1 .. Len(srv_hist) : srv_hist[i][id] = 0
    /\ ServerStep([SrvCur EXCEPT ![id] = SrvToken + 1], d)

ServerUpdate(id, d) ==
    /\ SrvCur[id] # 0
    /\ ServerStep([SrvCur EXCEPT ![id] = SrvToken + 1], d)

ServerDestroy(id, d) ==
    /\ SrvCur[id] # 0
    /\ ServerStep([SrvCur EXCEPT ![id] = 0], d)

\* Mailbox/changes since a token: created, updated, destroyed
Created(since) == {id \in MailboxIds : srv_hist[since][id] = 0 /\ SrvCur[id] # 0}

Updated(since) ==
    {id \in MailboxIds : srv_hist[since][id] # 0 /\ SrvCur[id] # 0
                         /\ srv_hist[since][id] # SrvCur[id]}

Destroyed(since) == {id \in MailboxIds : srv_hist[since][id] # 0 /\ SrvCur[id] = 0}

(***************************************************************************)
(* sync_mailbox_list (sync_mailbox_list.rs:10-71)                          *)
(***************************************************************************)
\* lines 17-30: the cursor is read; with a non-empty cursor mailboxes_changes
\* is asked, otherwise query_mailboxes
MlRequestChanges ==
    /\ ml_pc = "start"
    /\ new_state' = SrvToken
    /\ list_token' = SrvToken
    /\ IF mailboxes_sync_state # {}
       THEN \E since \in mailboxes_sync_state :
               /\ updated_ids' = Created(since) \cup Updated(since)
               /\ deleted' = Destroyed(since)
       ELSE /\ updated_ids' = Ids(SrvCur)
            /\ deleted' = {}
    /\ ml_pc' = "get"
    /\ UNCHANGED notMl
    /\ UNCHANGED <<srv_hist, mailboxes, mailboxes_sync_state, tx, updated,
                   push_sub, changes_sent, pre_rows, pre_state, failed_at>>

\* lines 38-47: get_mailboxes(updated) unless updated is empty; the server
\* answers with the mailboxes that exist when it handles the request
MlGetMailboxes ==
    /\ ml_pc = "get"
    /\ updated' = [id \in MailboxIds |->
                      IF id \in updated_ids THEN SrvCur[id] ELSE 0]
    /\ list_token' = IF updated_ids = {} THEN list_token ELSE SrvToken
    /\ ml_pc' = "begin"
    /\ UNCHANGED notMl
    /\ UNCHANGED <<srv_hist, mailboxes, mailboxes_sync_state, tx, new_state,
                   updated_ids, deleted, push_sub, changes_sent,
                   pre_rows, pre_state, failed_at>>

(***************************************************************************)
(* Repository::update_mailboxes (repo/mailboxes.rs:21-84)                  *)
(***************************************************************************)
\* line 28: self.pool().begin()
MlTxBegin ==
    /\ ml_pc = "begin"
    /\ tx' = {[rows |-> mailboxes, state |-> mailboxes_sync_state,
               num_inserted |-> 0, num_deleted |-> 0]}
    /\ ml_pc' = "insert"
    /\ UNCHANGED notMl
    /\ UNCHANGED <<srv_hist, mailboxes, mailboxes_sync_state, new_state,
                   updated_ids, updated, deleted, push_sub, changes_sent,
                   pre_rows, pre_state, list_token, failed_at>>

Upsert(rows, list) ==
    [id \in MailboxIds |-> IF list[id] # 0 THEN list[id] ELSE rows[id]]

Delete(rows, ids) ==
    [id \in MailboxIds |-> IF id \in ids THEN 0 ELSE rows[id]]

MlTxInsert_Autocommit ==
    /\ ml_pc = "insert"
    /\ mailboxes' = Upsert(mailboxes, updated)
    /\ tx' = {[t EXCEPT !.rows = Upsert(t.rows, updated),
                        !.num_inserted = Cardinality(Ids(updated))] : t \in tx}
    /\ ml_pc' = "delete"
    /\ UNCHANGED notMl
    /\ UNCHANGED <<srv_hist, mailboxes_sync_state, new_state,
                   updated_ids, updated, deleted, push_sub, changes_sent,
                   pre_rows, pre_state, list_token, failed_at>>

\* lines 30-48: INSERT ... ON CONFLICT DO UPDATE, inside the transaction
MlTxInsert ==
    /\ ml_pc = "insert"
    /\ tx' = {[t EXCEPT !.rows = Upsert(t.rows, updated),
                        !.num_inserted = Cardinality(Ids(updated))] : t \in tx}
    /\ ml_pc' = "delete"
    /\ UNCHANGED notMl
    /\ UNCHANGED <<srv_hist, mailboxes, mailboxes_sync_state, new_state,
                   updated_ids, updated, deleted, push_sub, changes_sent,
                   pre_rows, pre_state, list_token, failed_at>>

MlTxDelete_Skip ==
    /\ ml_pc = "delete"
    /\ tx' = tx
    /\ ml_pc' = "set_state"
    /\ UNCHANGED notMl
    /\ UNCHANGED <<srv_hist, mailboxes, mailboxes_sync_state, new_state,
                   updated_ids, updated, deleted, push_sub, changes_sent,
                   pre_rows, pre_state, list_token, failed_at>>

\* lines 50-66: DELETE FROM mailboxes WHERE id IN deleted, inside the
\* transaction
MlTxDelete ==
    /\ ml_pc = "delete"
    /\ tx' = {[t EXCEPT !.rows = Delete(t.rows, deleted),
                        !.num_deleted = Cardinality(Ids(t.rows) \cap deleted)]
                 : t \in tx}
    /\ ml_pc' = "set_state"
    /\ UNCHANGED notMl
    /\ UNCHANGED <<srv_hist, mailboxes, mailboxes_sync_state, new_state,
                   updated_ids, updated, deleted, push_sub, changes_sent,
                   pre_rows, pre_state, list_token, failed_at>>

\* lines 68-75: UPDATE accounts SET mailboxes_sync_state, inside the
\* transaction
MlTxSetState ==
    /\ ml_pc = "set_state"
    /\ tx' = {[t EXCEPT !.state = {new_state}] : t \in tx}
    /\ ml_pc' = "commit"
    /\ UNCHANGED notMl
    /\ UNCHANGED <<srv_hist, mailboxes, mailboxes_sync_state, new_state,
                   updated_ids, updated, deleted, push_sub, changes_sent,
                   pre_rows, pre_state, list_token, failed_at>>

MlTxCommit_SubscribesAfterRound ==
    /\ ml_pc = "commit"
    /\ \E t \in tx :
          /\ mailboxes' = t.rows
          /\ mailboxes_sync_state' = t.state
          /\ changes_sent' = IF t.num_inserted > 0 \/ t.num_deleted > 0
                             THEN changes_sent + 1 ELSE changes_sent
    /\ tx' = {}
    /\ push_sub' = 0
    /\ ml_pc' = "wait_push"
    /\ UNCHANGED notMl
    /\ UNCHANGED <<srv_hist, new_state, updated_ids, updated, deleted,
                   pre_rows, pre_state, list_token, failed_at>>

\* lines 77-83: tx.commit(), then notify_changes(["mailboxes"]) when a row
\* was written or deleted; the task goes on to wait for a push
MlTxCommit ==
    /\ ml_pc = "commit"
    /\ \E t \in tx :
          /\ mailboxes' = t.rows
          /\ mailboxes_sync_state' = t.state
          /\ changes_sent' = IF t.num_inserted > 0 \/ t.num_deleted > 0
                             THEN changes_sent + 1 ELSE changes_sent
    /\ tx' = {}
    /\ ml_pc' = "wait_push"
    /\ UNCHANGED notMl
    /\ UNCHANGED <<srv_hist, new_state, updated_ids, updated, deleted,
                   push_sub, pre_rows, pre_state, list_token, failed_at>>

\* the locals of one loop iteration go out of scope
LocalsDropped ==
    /\ new_state' = 0
    /\ updated_ids' = {}
    /\ updated' = NoMailboxes
    /\ deleted' = {}
    /\ list_token' = 0

\* history: the Store as the round that begins finds it
RoundBegins ==
    /\ pre_rows' = mailboxes
    /\ pre_state' = mailboxes_sync_state

MlRunning ==
    ml_pc \in {"start", "get", "begin", "insert", "delete", "set_state",
               "commit", "wait_push"}

\* A step fails (the Store read, a JMAP request, a statement or the commit
\* of the transaction, push_sub.recv()): the error is returned with `?`, the
\* open transaction is dropped (rolled back) and the task ends.
MlFail ==
    /\ MlRunning
    /\ failed_at' = ml_pc
    /\ ml_pc' = "failed"
    /\ tx' = {}
    /\ LocalsDropped
    /\ UNCHANGED notMl
    /\ UNCHANGED <<srv_hist, mailboxes, mailboxes_sync_state, push_sub,
                   changes_sent, pre_rows, pre_state>>

\* sync_mailbox_list.rs:53-69: a StateChange with a Mailbox entry is received
MlWaitPush ==
    /\ ml_pc = "wait_push"
    /\ push_sub > 0
    /\ push_sub' = push_sub - 1
    /\ ml_pc' = "start"
    /\ LocalsDropped
    /\ RoundBegins
    /\ UNCHANGED notMl
    /\ UNCHANGED <<srv_hist, mailboxes, mailboxes_sync_state, tx,
                   changes_sent, failed_at>>

\* The task is spawned again over the same Store (sync_account.rs:32-36, at
\* the next start of the account); it subscribes to the pushes sent from
\* then on (sync_mailbox_list.rs:15).
MlStart ==
    /\ ml_pc = "failed"
    /\ ml_pc' = "start"
    /\ push_sub' = 0
    /\ failed_at' = "none"
    /\ RoundBegins
    /\ UNCHANGED notMl
    /\ UNCHANGED <<srv_hist, mailboxes, mailboxes_sync_state, tx, new_state,
                   updated_ids, updated, deleted, changes_sent, list_token>>

NextMailboxList ==
    \/ \E id \in MailboxIds, d \in {0, 1} : ServerCreate(id, d)
    \/ \E id \in MailboxIds, d \in {0, 1} : ServerUpdate(id, d)
    \/ \E id \in MailboxIds, d \in {0, 1} : ServerDestroy(id, d)
    \/ MlRequestChanges
    \/ MlGetMailboxes
    \/ MlTxBegin
    \/ MlTxInsert
    \/ MlTxDelete
    \/ MlTxSetState
    \/ MlTxCommit
    \/ MlFail
    \/ MlWaitPush
    \/ MlStart

\* a fresh Store; the server holds any set of mailboxes under token 1
InitMailboxList ==
    /\ InitApi(TRUE)
    /\ \E present \in SUBSET MailboxIds :
          InitMl([id \in MailboxIds |-> IF id \in present THEN 1 ELSE 0])
    /\ InitEm(NoEmails)
    /\ InitDr
    /\ InitLater

SpecMailboxList == InitMailboxList /\ [][NextMailboxList]_vars

(***************************************************************************)
(* Properties of Part II                                                   *)
(***************************************************************************)
\* the rows the round writes, applied to the table the round started from
PostRows == Delete(Upsert(pre_rows, updated), deleted)

\* positions at which the round knows its new_state, rows and deletions
InUpdate == ml_pc \in {"begin", "insert", "delete", "set_state", "commit"}

StoreUnchanged ==
    /\ mailboxes = pre_rows
    /\ mailboxes_sync_state = pre_state

StoreUpdated ==
    /\ mailboxes = PostRows
    /\ mailboxes_sync_state = {new_state}

\* C9: the upserts, the deletions and the new cursor of a round become
\* visible in the Store together: until the commit the Store is as the round
\* found it, after it the Store holds all rows of the round and the round's
\* new_state; the cursor holds new_state exactly when the rows are applied;
\* a round that failed, at whatever step, left rows and cursor as they were.
C9_RoundIsAtomic ==
    /\ (ml_pc \in {"start", "get"} \/ InUpdate) => StoreUnchanged
    /\ ml_pc = "wait_push" => StoreUpdated
    /\ (ml_pc = "failed" /\ failed_at # "wait_push") => StoreUnchanged
    /\ (InUpdate \/ ml_pc = "wait_push") =>
          /\ mailboxes_sync_state = {new_state} => mailboxes = PostRows
          /\ mailboxes # pre_rows => mailboxes_sync_state = {new_state}

\* the commit of a transaction that had upserted and deleted rows and set
\* the cursor failed, and the Store is as before the round
C9_Witness ==
    /\ ml_pc = "failed"
    /\ failed_at = "commit"
    /\ mailboxes_sync_state # {}
    /\ Ids(mailboxes) # {}
    /\ \E n \in mailboxes_sync_state : n < SrvToken

\* C10 as stated: after every completed round the Store holds exactly the
\* mailbox ids the server had at the token of the round, and the cursor is
\* that token.
C10_StoreEqualsServerAtToken ==
    ml_pc = "wait_push" =>
        /\ mailboxes_sync_state = {new_state}
        /\ Ids(mailboxes) = Ids(srv_hist[new_state])

\* C10 amended: after every completed round the cursor is the token of the
\* round and the Store holds the mailbox ids the server had at that token
\* except those the server had destroyed by the time it answered
\* get-mailboxes; with none destroyed in between the two sets are equal.
C10_StoreFollowsServer ==
    ml_pc = "wait_push" =>
        /\ mailboxes_sync_state = {new_state}
        /\ Ids(mailboxes) \subseteq Ids(srv_hist[new_state])
        /\ \A id \in Ids(srv_hist[new_state]) \ Ids(mailboxes) :
              /\ list_token > new_state
              /\ srv_hist[list_token][id] = 0
        /\ Ids(srv_hist[new_state]) \subseteq Ids(srv_hist[list_token])
              => Ids(mailboxes) = Ids(srv_hist[new_state])

\* an incremental round that added one mailbox and removed another is done
C10_Witness ==
    /\ ml_pc = "wait_push"
    /\ pre_state # {}
    /\ Ids(mailboxes) \ Ids(pre_rows) # {}
    /\ Ids(pre_rows) \ Ids(mailboxes) # {}
    /\ Ids(mailboxes) = Ids(srv_hist[new_state])

(***************************************************************************)
(* sync_account (sync_account.rs:21-64) as the supervisor of               *)
(* sync_mailbox_list                                                       *)
(***************************************************************************)
\* One step of the running sync_mailbox_list task.  The tokio runtime polls
\* a spawned task whenever it can go on; MlFail and the server's steps are
\* not owed, and neither is MlStart: sync_account spawns the task once
\* (lines 31-35) and then only receives commands (lines 44-61), it never
\* joins the JoinSet nor spawns sync_mailbox_list a second time.
MlTaskStep ==
    \/ MlRequestChanges
    \/ MlGetMailboxes
    \/ MlTxBegin
    \/ MlTxInsert
    \/ MlTxDelete
    \/ MlTxSetState
    \/ MlTxCommit
    \/ MlWaitPush

SpecMailboxListLive == SpecMailboxList /\ WF_vars(MlTaskStep)

\* sync_mailbox_list while the server changes one mailbox and pushes
NextMailboxPush ==
    \/ \E d \in {0, 1} : ServerCreate(1, d)
    \/ \E d \in {0, 1} : ServerUpdate(1, d)
    \/ \E d \in {0, 1} : ServerDestroy(1, d)
    \/ MlTaskStep
    \/ MlFail

SpecMailboxPush ==
    InitMailboxList /\ [][NextMailboxPush]_vars /\ WF_vars(MlTaskStep)

\* the sync_mailbox_list task is inside a round (sync_mailbox_list.rs:17-51)
InRound ==
    ml_pc \in {"start", "get", "begin", "insert", "delete", "set_state", "commit"}

\* C32: a StateChange push with a Mailbox entry that arrives while a round
\* is in progress is not lost: it stays in the subscription until the task
\* takes it to start a round, and once the round in progress has finished
\* the task starts another round, whether or not a further push arrives
\* (unless a step of the task fails and the task ends).
C32_PushDuringRoundStartsAnotherRound ==
    /\ [][push_sub' < push_sub =>
              \/ ml_pc = "wait_push" /\ ml_pc' = "start" /\ push_sub' = push_sub - 1
              \/ ml_pc = "failed"]_vars
    /\ \A k \in 1 .. MaxServerStates :
          (InRound /\ push_sub = k) ~>
              (ml_pc = "failed" \/ (ml_pc = "start" /\ push_sub < k))

\* the first round of the task asked the server at token 1; the server has
\* moved on since and its push is in the subscription while the round is
\* about to commit
C32_Witness ==
    /\ ml_pc = "commit"
    /\ pre_state = {}
    /\ new_state = 1
    /\ Len(srv_hist) = 2
    /\ push_sub = 1

\* C11: a Mailbox-List Syncer whose round failed is eventually running
\* again; the account never stays without a running Mailbox-List Syncer.
C11_FailedSyncerIsRestarted ==
    (ml_pc = "failed") ~> MlRunning

(***************************************************************************)
(* Part III.  The JMAP server as sync_mailbox_once sees it                 *)
(***************************************************************************)
ESrvToken == Len(esrv_hist)

ESrvCur == esrv_hist[Len(esrv_hist)]

\* The server moves to a new Email state.  The StateChange push with an
\* Email entry is sent on the broadcast channel notification_sender
\* (jmap_api.rs:206-211) and reaches the subscription of every running
\* sync_mailbox task, or it is lost with the connection.
EServerStep(next, d) ==
    /\ Len(esrv_hist) < MaxEmailStates
    /\ esrv_hist' = Append(esrv_hist, next)
    /\ email_notification' =
          [m \in SyncedMailboxes |->
              IF sm_pc[m] = "returned" THEN email_notification[m]
              ELSE email_notification[m] + d]
    /\ UNCHANGED notEm
    /\ UNCHANGED <<emails, mailbox_emails, email_sync_state, sm_pc, state_tx,
                   receivers, watcher_requests, wr_issued, push_armed,
                   e_updated, e_deleted, e_new_state, e_list, e_pre_state,
                   e_done>>

\* an email id is never used again once destroyed
EServerCreate(id, mb, d) ==
    /\ \A i \in 1 .. Len(esrv_hist) : esrv_hist[i][id] = NoEmail
    /\ EServerStep([ESrvCur EXCEPT ![id] = [ver |-> ESrvToken + 1, mbox |-> mb,
                                            subject |-> SubjectOf(id)]], d)

\* keywords change (mb is the mailbox the email is in) or the email is moved
EServerUpdate(id, mb, d) ==
    /\ ESrvCur[id] # NoEmail
    /\ EServerStep([ESrvCur EXCEPT ![id].ver = ESrvToken + 1, ![id].mbox = mb], d)

EServerDestroy(id, d) ==
    /\ ESrvCur[id] # NoEmail
    /\ EServerStep([ESrvCur EXCEPT ![id] = NoEmail], d)

\* Email/changes from the state `since` up to the state `to`
ECreated(since, to) ==
    {id \in EmailIds : esrv_hist[since][id] = NoEmail /\ esrv_hist[to][id] # NoEmail}

EUpdated(since, to) ==
    {id \in EmailIds : /\ esrv_hist[since][id] # NoEmail
                       /\ esrv_hist[to][id] # NoEmail
                       /\ esrv_hist[since][id] # esrv_hist[to][id]}

EDestroyed(since, to) ==
    {id \in EmailIds : esrv_hist[since][id] # NoEmail /\ esrv_hist[to][id] = NoEmail}

(***************************************************************************)
(* sync_mailbox (sync_mailboxes.rs:137-209)                                *)
(***************************************************************************)
\* the locals of sync_mailbox_once go out of scope
SmLocalsDropped(m) ==
    /\ e_updated' = [e_updated EXCEPT ![m] = {}]
    /\ e_deleted' = [e_deleted EXCEPT ![m] = {}]
    /\ e_new_state' = [e_new_state EXCEPT ![m] = 0]
    /\ e_list' = [e_list EXCEPT ![m] = NoEmails]

\* history: no call of sync_mailbox_once is running
SmCallOver(m) ==
    /\ e_pre_state' = [e_pre_state EXCEPT ![m] = {}]
    /\ e_done' = [e_done EXCEPT ![m] = {}]

\* state_tx.send(v): state_tx keeps the value sent before v and v
SmSend(m, v) ==
    state_tx' = [state_tx EXCEPT ![m] = <<@[Len(@)], v>>]

SmStartSync_NoInProgress(m) ==
    /\ UNCHANGED state_tx
    /\ sm_pc' = [sm_pc EXCEPT ![m] = "request"]
    /\ push_armed' = [push_armed EXCEPT ![m] = FALSE]
    /\ e_pre_state' = [e_pre_state EXCEPT ![m] = email_sync_state[m]]
    /\ e_done' = [e_done EXCEPT ![m] = {}]

\* lines 192-196: InProgress is sent and sync_mailbox_once is called
SmStartSync(m) ==
    /\ SmSend(m, "InProgress")
    /\ sm_pc' = [sm_pc EXCEPT ![m] = "request"]
    /\ push_armed' = [push_armed EXCEPT ![m] = FALSE]
    /\ e_pre_state' = [e_pre_state EXCEPT ![m] = email_sync_state[m]]
    /\ e_done' = [e_done EXCEPT ![m] = {}]

\* sync_mailboxes.rs:103-110: the router hands a watcher request to the
\* worker of the mailbox with try_send
SmWatchIssue(m) ==
    /\ sm_pc[m] # "returned"
    /\ wr_issued < MaxWatchRequests
    /\ watcher_requests[m] < WatcherQueueCapacity
    /\ wr_issued' = wr_issued + 1
    /\ watcher_requests' = [watcher_requests EXCEPT ![m] = @ + 1]
    /\ UNCHANGED notEm
    /\ UNCHANGED <<esrv_hist, emails, mailbox_emails, email_sync_state, sm_pc,
                   state_tx, receivers, email_notification, push_armed,
                   e_updated, e_deleted, e_new_state, e_list, e_pre_state,
                   e_done>>

\* a watcher drops its receiver of the state channel (the forwarding task
\* handle_watch_mailbox_command ends, lines 42-45)
SmWatcherGone(m) ==
    /\ receivers[m] > 1
    /\ receivers' = [receivers EXCEPT ![m] = @ - 1]
    /\ UNCHANGED notEm
    /\ UNCHANGED <<esrv_hist, emails, mailbox_emails, email_sync_state, sm_pc,
                   state_tx, watcher_requests, wr_issued, email_notification,
                   push_armed, e_updated, e_deleted, e_new_state, e_list,
                   e_pre_state, e_done>>

\* lines 178-189: a watcher request is received; state_tx.subscribe() is
\* sent to it; when the requester is gone (ok = FALSE) the receiver is
\* dropped again and the loop continues
SmWatchRequest(m, ok) ==
    /\ sm_pc[m] = "select"
    /\ watcher_requests[m] > 0
    /\ watcher_requests' = [watcher_requests EXCEPT ![m] = @ - 1]
    /\ IF ok
       THEN /\ receivers' = [receivers EXCEPT ![m] = @ + 1]
            /\ SmStartSync(m)
       ELSE /\ push_armed' = [push_armed EXCEPT ![m] = receivers[m] > 1]
            /\ UNCHANGED <<receivers, state_tx, sm_pc, e_pre_state, e_done>>
    /\ UNCHANGED notEm
    /\ UNCHANGED <<esrv_hist, emails, mailbox_emails, email_sync_state,
                   wr_issued, email_notification, e_updated, e_deleted,
                   e_new_state, e_list>>

SmPush_NoRecheck(m) ==
    /\ sm_pc[m] = "select"
    /\ push_armed[m]
    /\ email_notification[m] > 0
    /\ email_notification' = [email_notification EXCEPT ![m] = @ - 1]
    /\ SmStartSync(m)
    /\ UNCHANGED notEm
    /\ UNCHANGED <<esrv_hist, emails, mailbox_emails, email_sync_state,
                   receivers, watcher_requests, wr_issued, e_updated,
                   e_deleted, e_new_state, e_list>>

\* lines 148-176: wait_for_push, which found receiver_count() > 1 when it
\* was first polled, receives a StateChange with an Email entry;
\* receiver_count() is looked at again and with fewer than 2 receivers the
\* loop continues without syncing
SmPush(m) ==
    /\ sm_pc[m] = "select"
    /\ push_armed[m]
    /\ email_notification[m] > 0
    /\ email_notification' = [email_notification EXCEPT ![m] = @ - 1]
    /\ IF receivers[m] < 2
       THEN /\ push_armed' = [push_armed EXCEPT ![m] = FALSE]
            /\ UNCHANGED <<state_tx, sm_pc, e_pre_state, e_done>>
       ELSE SmStartSync(m)
    /\ UNCHANGED notEm
    /\ UNCHANGED <<esrv_hist, emails, mailbox_emails, email_sync_state,
                   receivers, watcher_requests, wr_issued, e_updated,
                   e_deleted, e_new_state, e_list>>

\* the task is over: its receivers of the two channels are dropped
SmTaskEnds(m) ==
    /\ sm_pc' = [sm_pc EXCEPT ![m] = "returned"]
    /\ push_armed' = [push_armed EXCEPT ![m] = FALSE]
    /\ email_notification' = [email_notification EXCEPT ![m] = 0]
    /\ watcher_requests' = [watcher_requests EXCEPT ![m] = 0]
    /\ SmLocalsDropped(m)
    /\ SmCallOver(m)
    /\ UNCHANGED notEm
    /\ UNCHANGED <<esrv_hist, emails, mailbox_emails, email_sync_state,
                   state_tx, receivers, wr_issued>>

\* lines 152, 170: email_notification.recv() fails in wait_for_push (the
\* subscription lagged or the sender is gone) and the task returns the error
SmPushRecvError(m) ==
    /\ sm_pc[m] = "select"
    /\ push_armed[m]
    /\ SmTaskEnds(m)

\* lines 179-182: the watcher-requests channel is closed and empty
SmChannelClosed(m) ==
    /\ sm_pc[m] = "select"
    /\ watcher_requests[m] = 0
    /\ SmTaskEnds(m)

\* sync_mailboxes.rs:72, 90 and util/tasks.rs:5-9: the worker is removed
\* from mailbox_workers and its AutoAbortHandle aborts the task at the await
\* it is suspended on
SmAborted(m) ==
    /\ sm_pc[m] # "returned"
    /\ SmTaskEnds(m)

(***************************************************************************)
(* sync_mailbox_once (sync_mailboxes.rs:212-288) with                      *)
(* Repository::update_emails, delete_emails (repo/emails.rs) and           *)
(* set_mailbox_email_sync_state (repo/mailboxes.rs:127-143)                *)
(***************************************************************************)
\* lines 261, 275: what follows once the ids and the new state are known
SmAfterFetch(upd, del) ==
    IF upd # {} THEN "get" ELSE IF del # {} THEN "delete" ELSE "set_state"

\* lines 226-239: email_changes(last_state) is answered with the changes up
\* to the state `to`: the last page when `to` is the server's current state,
\* otherwise a page with has_more_changes, after which the same request
\* (since = last_state) is sent again
SmEmailChanges(m, to) ==
    /\ sm_pc[m] = "request"
    /\ \E since \in email_sync_state[m] :
          /\ to \in since .. ESrvToken
          /\ to = ESrvToken \/ to > since
          /\ LET upd == e_updated[m] \cup EUpdated(since, to)
                                     \cup ECreated(since, to)
                 del == e_deleted[m] \cup EDestroyed(since, to)
             IN  /\ e_updated' = [e_updated EXCEPT ![m] = upd]
                 /\ e_deleted' = [e_deleted EXCEPT ![m] = del]
                 /\ IF to < ESrvToken
                    THEN UNCHANGED <<e_new_state, sm_pc>>
                    ELSE /\ e_new_state' = [e_new_state EXCEPT ![m] = to]
                         /\ sm_pc' = [sm_pc EXCEPT ![m] = SmAfterFetch(upd, del)]
    /\ UNCHANGED notEm
    /\ UNCHANGED <<esrv_hist, emails, mailbox_emails, email_sync_state,
                   state_tx, receivers, watcher_requests, wr_issued,
                   email_notification, push_armed, e_list, e_pre_state,
                   e_done>>

\* lines 241-258: without a cursor query_emails(mailbox_id) is asked
SmQueryEmails(m) ==
    /\ sm_pc[m] = "request"
    /\ email_sync_state[m] = {}
    /\ LET upd == {id \in EIds(ESrvCur) : ESrvCur[id].mbox = m}
       IN  /\ e_updated' = [e_updated EXCEPT ![m] = upd]
           /\ sm_pc' = [sm_pc EXCEPT ![m] = SmAfterFetch(upd, {})]
    /\ e_new_state' = [e_new_state EXCEPT ![m] = ESrvToken]
    /\ UNCHANGED notEm
    /\ UNCHANGED <<esrv_hist, emails, mailbox_emails, email_sync_state,
                   state_tx, receivers, watcher_requests, wr_issued,
                   email_notification, push_armed, e_deleted, e_list,
                   e_pre_state, e_done>>

\* lines 262-266: get_emails(updated.drain(0..).take(200)): the first 200
\* ids are asked for and the Drain empties updated when it is dropped; the
\* server answers with the emails that exist when it handles the request
SmGetEmails(m) ==
    /\ sm_pc[m] = "get"
    /\ \E batch \in SUBSET e_updated[m] :
          /\ Cardinality(batch) =
                IF Cardinality(e_updated[m]) < GetBatch
                THEN Cardinality(e_updated[m]) ELSE GetBatch
          /\ e_list' = [e_list EXCEPT ![m] =
                          [id \in EmailIds |->
                              IF id \in batch THEN ESrvCur[id] ELSE NoEmail]]
    /\ e_updated' = [e_updated EXCEPT ![m] = {}]
    /\ sm_pc' = [sm_pc EXCEPT ![m] = "upsert"]
    /\ e_done' = [e_done EXCEPT ![m] = @ \cup {"get_emails"}]
    /\ UNCHANGED notEm
    /\ UNCHANGED <<esrv_hist, emails, mailbox_emails, email_sync_state,
                   state_tx, receivers, watcher_requests, wr_issued,
                   email_notification, push_armed, e_deleted, e_new_state,
                   e_pre_state>>

\* SqliteConnectOptions::new() (repo/mod.rs:29-33) leaves sqlx's default
\* PRAGMA foreign_keys = ON
ForeignKeys_Off == FALSE

ForeignKeys == TRUE

\* the column subject of a row, projected from its jmap_data
SubjectIsNull(row) == row.subject = 0

\* repo/emails.rs:70-84: INSERT INTO emails ... ON CONFLICT DO UPDATE SET
\* jmap_data = EXCLUDED.jmap_data WHERE subject IS NULL: a new row is
\* inserted, an existing row is rewritten only when its subject is NULL
UpsertEmails(rows, list) ==
    [id \in EmailIds |->
        IF list[id] = NoEmail THEN rows[id]
        ELSE IF rows[id] = NoEmail THEN list[id]
        ELSE IF SubjectIsNull(rows[id]) THEN list[id]
        ELSE rows[id]]

SmUpdateEmailsInsert_SetsCursor(m) ==
    /\ sm_pc[m] = "upsert"
    /\ emails' = UpsertEmails(emails, e_list[m])
    /\ email_sync_state' = [email_sync_state EXCEPT ![m] = {e_new_state[m]}]
    /\ sm_pc' = [sm_pc EXCEPT ![m] = "membership"]
    /\ e_done' = [e_done EXCEPT ![m] = @ \cup {"emails"}]
    /\ UNCHANGED notEm
    /\ UNCHANGED <<esrv_hist, mailbox_emails, state_tx,
                   receivers, watcher_requests, wr_issued, email_notification,
                   push_armed, e_updated, e_deleted, e_new_state, e_list,
                   e_pre_state>>

\* repo/emails.rs:65-84: the statement runs on self.pool(), not on the
\* transaction begun in line 65: it is committed on its own
SmUpdateEmailsInsert(m) ==
    /\ sm_pc[m] = "upsert"
    /\ emails' = UpsertEmails(emails, e_list[m])
    /\ sm_pc' = [sm_pc EXCEPT ![m] = "membership"]
    /\ e_done' = [e_done EXCEPT ![m] = @ \cup {"emails"}]
    /\ UNCHANGED notEm
    /\ UNCHANGED <<esrv_hist, mailbox_emails, email_sync_state, state_tx,
                   receivers, watcher_requests, wr_issued, email_notification,
                   push_armed, e_updated, e_deleted, e_new_state, e_list,
                   e_pre_state>>

\* repo/emails.rs:86-94: (mailbox_id, email.id) of every email of the list
MailboxEmailIds(list) == {<<list[id].mbox, id>> : id \in EIds(list)}

\* the rows of mailbox_emails that refer to an email row
Referencing(rows, ids) == {p \in rows : p[2] \in ids}

\* repo/emails.rs:99-125: inside the transaction, INSERT OR IGNORE INTO
\* mailbox_emails for every pair of the list and DELETE of the other rows of
\* these emails, then commit.  The transaction holds SQLite's write lock from
\* its first statement to the commit, so the three are one step for every
\* other writer.  With foreign keys on, the INSERT fails when a referenced
\* email row is missing (then only SmFail can follow).  The list goes out of
\* scope at the end of the while body (sync_mailboxes.rs:273).
SmUpdateEmailsCommit(m) ==
    /\ sm_pc[m] = "membership"
    /\ ForeignKeys => \A id \in EIds(e_list[m]) : emails[id] # NoEmail
    /\ mailbox_emails' =
          (mailbox_emails \cup MailboxEmailIds(e_list[m]))
             \ (Referencing(mailbox_emails, EIds(e_list[m]))
                   \ MailboxEmailIds(e_list[m]))
    /\ sm_pc' = [sm_pc EXCEPT ![m] = SmAfterFetch(e_updated[m], e_deleted[m])]
    /\ e_done' = [e_done EXCEPT ![m] = @ \cup {"mailbox_emails"}]
    /\ e_list' = [e_list EXCEPT ![m] = NoEmails]
    /\ UNCHANGED notEm
    /\ UNCHANGED <<esrv_hist, emails, email_sync_state, state_tx, receivers,
                   watcher_requests, wr_issued, email_notification,
                   push_armed, e_updated, e_deleted, e_new_state,
                   e_pre_state>>

\* the rows of mailbox_emails refer to emails ON DELETE CASCADE
OnDeleteCascade(rows, ids) ==
    IF ForeignKeys THEN rows \ Referencing(rows, ids) ELSE rows

\* repo/emails.rs:41-58: DELETE FROM emails WHERE id IN deleted
SmDeleteEmails(m) ==
    /\ sm_pc[m] = "delete"
    /\ emails' = [id \in EmailIds |->
                     IF id \in e_deleted[m] THEN NoEmail ELSE emails[id]]
    /\ mailbox_emails' = OnDeleteCascade(mailbox_emails, e_deleted[m])
    /\ sm_pc' = [sm_pc EXCEPT ![m] = "set_state"]
    /\ e_done' = [e_done EXCEPT ![m] = @ \cup {"delete"}]
    /\ UNCHANGED notEm
    /\ UNCHANGED <<esrv_hist, email_sync_state, state_tx, receivers,
                   watcher_requests, wr_issued, email_notification,
                   push_armed, e_updated, e_deleted, e_new_state, e_list,
                   e_pre_state>>

\* sync_mailboxes.rs:283-287 and 207: set_mailbox_email_sync_state(new_state),
\* sync_mailbox_once returns Ok and UpToDate is sent; the loop goes back to
\* the select
SmSetState(m) ==
    /\ sm_pc[m] = "set_state"
    /\ email_sync_state' = [email_sync_state EXCEPT ![m] = {e_new_state[m]}]
    /\ SmSend(m, "UpToDate")
    /\ sm_pc' = [sm_pc EXCEPT ![m] = "select"]
    /\ push_armed' = [push_armed EXCEPT ![m] = receivers[m] > 1]
    /\ SmLocalsDropped(m)
    /\ SmCallOver(m)
    /\ UNCHANGED notEm
    /\ UNCHANGED <<esrv_hist, emails, mailbox_emails, receivers,
                   watcher_requests, wr_issued, email_notification>>

SmInSyncOnce(m) ==
    sm_pc[m] \in {"request", "get", "upsert", "membership", "delete", "set_state"}

\* sync_mailboxes.rs:198-204: the step sync_mailbox_once is at fails (a JMAP
\* request, a statement, the commit); the open transaction is rolled back,
\* Error is sent and the loop goes back to the select
SmFail(m) ==
    /\ SmInSyncOnce(m)
    /\ SmSend(m, "Error")
    /\ sm_pc' = [sm_pc EXCEPT ![m] = "select"]
    /\ push_armed' = [push_armed EXCEPT ![m] = receivers[m] > 1]
    /\ SmLocalsDropped(m)
    /\ SmCallOver(m)
    /\ UNCHANGED notEm
    /\ UNCHANGED <<esrv_hist, emails, mailbox_emails, email_sync_state,
                   receivers, watcher_requests, wr_issued, email_notification>>

\* the mailbox whose watchers come and go
Watched == {1}

\* One sync_mailbox task in full: watchers come and go, every change of the
\* server is pushed (the task is free to leave a push in its subscription),
\* the task can end at any time.
NextMailboxSync ==
    \/ \E id \in EmailIds, mb \in SyncedMailboxes : EServerCreate(id, mb, 1)
    \/ \E id \in EmailIds : EServerUpdate(id, ESrvCur[id].mbox, 1)
    \/ \E id \in EmailIds : EServerDestroy(id, 1)
    \/ \E m \in Watched : SmWatchIssue(m)
    \/ \E m \in Watched : SmWatcherGone(m)
    \/ \E m \in Watched, ok \in BOOLEAN : SmWatchRequest(m, ok)
    \/ \E m \in Watched : SmPush(m)
    \/ \E m \in Watched : SmPushRecvError(m)
    \/ \E m \in Watched : SmChannelClosed(m)
    \/ \E m \in Watched : SmAborted(m)
    \/ \E m \in Watched, to \in 1 .. MaxEmailStates : SmEmailChanges(m, to)
    \/ \E m \in Watched : SmQueryEmails(m)
    \/ \E m \in Watched : SmGetEmails(m)
    \/ \E m \in Watched : SmUpdateEmailsInsert(m)
    \/ \E m \in Watched : SmUpdateEmailsCommit(m)
    \/ \E m \in Watched : SmDeleteEmails(m)
    \/ \E m \in Watched : SmSetState(m)
    \/ \E m \in Watched : SmFail(m)

\* a fresh Store; the server holds any set of emails under Email state 1
InitMailboxSync ==
    /\ InitApi(TRUE)
    /\ InitMl(NoMailboxes)
    /\ \E snapshot \in [EmailIds -> {NoEmail} \cup
                          [ver : {1}, mbox : SyncedMailboxes, subject : {0, 1}]] :
          /\ \A id \in EIds(snapshot) : snapshot[id].subject = SubjectOf(id)
          /\ InitEm(snapshot)
    /\ InitDr
    /\ InitLater

SpecMailboxSync == InitMailboxSync /\ [][NextMailboxSync]_vars

\* sync_mailbox_once of the mailboxes running side by side over one Store,
\* each started by the watcher requests of its mailbox: every watcher stays,
\* no task is ended, the pushes are lost
NextEmailStore ==
    \/ \E id \in EmailIds, mb \in SyncedMailboxes : EServerCreate(id, mb, 0)
    \/ \E id \in EmailIds, mb \in SyncedMailboxes : EServerUpdate(id, mb, 0)
    \/ \E id \in EmailIds : EServerDestroy(id, 0)
    \/ \E m \in SyncedMailboxes : SmWatchIssue(m)
    \/ \E m \in SyncedMailboxes : SmWatchRequest(m, TRUE)
    \/ \E m \in SyncedMailboxes, to \in 1 .. MaxEmailStates : SmEmailChanges(m, to)
    \/ \E m \in SyncedMailboxes : SmQueryEmails(m)
    \/ \E m \in SyncedMailboxes : SmGetEmails(m)
    \/ \E m \in SyncedMailboxes : SmUpdateEmailsInsert(m)
    \/ \E m \in SyncedMailboxes : SmUpdateEmailsCommit(m)
    \/ \E m \in SyncedMailboxes : SmDeleteEmails(m)
    \/ \E m \in SyncedMailboxes : SmSetState(m)
    \/ \E m \in SyncedMailboxes : SmFail(m)

\* the mailboxes that were synced before
InitiallySynced == {{1}}

\* The server holds any set of emails under Email state 1.  The mailboxes
\* of `synced` have been synced at that state by a first sync_mailbox_once,
\* which stored the emails it found in them; the others never were.
InitEmailStore ==
    /\ InitApi(TRUE)
    /\ InitMl(NoMailboxes)
    /\ InitDr
    /\ InitLater
    /\ \E snapshot \in [EmailIds -> {NoEmail} \cup
                          [ver : {1}, mbox : SyncedMailboxes, subject : {0, 1}]],
          synced \in InitiallySynced :
          /\ \A id \in EIds(snapshot) : snapshot[id].subject = SubjectOf(id)
          /\ esrv_hist = <<snapshot>>
          /\ emails = [id \in EmailIds |->
                          IF snapshot[id].mbox \in synced THEN snapshot[id]
                          ELSE NoEmail]
          /\ mailbox_emails = {p \in MailboxEmailIds(snapshot) : p[1] \in synced}
          /\ email_sync_state = [m \in SyncedMailboxes |->
                                    IF m \in synced THEN {1} ELSE {}]
          /\ sm_pc = All("select")
          /\ state_tx = [m \in SyncedMailboxes |->
                            IF m \in synced THEN <<"InProgress", "UpToDate">>
                            ELSE <<"NotStarted">>]
          /\ receivers = All(1)
          /\ watcher_requests = All(0)
          /\ wr_issued = 0
          /\ email_notification = All(0)
          /\ push_armed = All(FALSE)
          /\ e_updated = All({})
          /\ e_deleted = All({})
          /\ e_new_state = All(0)
          /\ e_list = All(NoEmails)
          /\ e_pre_state = All({})
          /\ e_done = All({})

SpecEmailStore == InitEmailStore /\ [][NextEmailStore]_vars

(***************************************************************************)
(* Properties of Part III                                                  *)
(***************************************************************************)
\* C12: a sync_mailbox task starts sync_mailbox_once, the only place where
\* it sends query-emails, email-changes and get-emails, only in the step in
\* which it hands a receiver of the state channel to a watcher request, or
\* in the step in which it takes a push while receiver_count() > 1; in both
\* cases the mailbox has an external watcher when the call starts.
C12_SyncOnlyForWatchers ==
    [][\A m \in SyncedMailboxes :
          (sm_pc[m] = "select" /\ sm_pc'[m] \in {"request", "get"}) =>
              /\ sm_pc'[m] = "request"
              /\ receivers'[m] > 1
              /\ \/ /\ watcher_requests'[m] = watcher_requests[m] - 1
                    /\ receivers'[m] = receivers[m] + 1
                 \/ /\ email_notification'[m] = email_notification[m] - 1
                    /\ receivers[m] > 1]_vars

\* the second call of a mailbox that got one watcher request: it was
\* started by a push
C12_Witness ==
    /\ wr_issued = 1
    /\ sm_pc[1] = "request"
    /\ state_tx[1] = <<"UpToDate", "InProgress">>

\* C13: the values sent on the state channel of a mailbox form a word of
\* (NotStarted)(InProgress (UpToDate|Error))*: NotStarted is the initial
\* value and is never sent, UpToDate and Error are sent only right after
\* InProgress, InProgress never right after InProgress.
C13_StateChannelRegex ==
    \A m \in SyncedMailboxes :
        state_tx[m] \in {<<"NotStarted">>,
                         <<"NotStarted", "InProgress">>,
                         <<"InProgress", "UpToDate">>,
                         <<"InProgress", "Error">>,
                         <<"UpToDate", "InProgress">>,
                         <<"Error", "InProgress">>}

\* a call that follows a failed call has published InProgress after Error
C13_Witness ==
    /\ state_tx[1] = <<"Error", "InProgress">>
    /\ sm_pc[1] = "set_state"

\* C15: email_sync_state of a mailbox is written only by the last step of
\* sync_mailbox_once, when every id was asked for, the emails the server
\* returned were upserted with their memberships and the destroyed ids were
\* deleted; during the call, and after a call that failed at whatever step,
\* it has the value it had when the call began.
C15_CursorWrittenLast ==
    [][\A m \in SyncedMailboxes :
          /\ SmInSyncOnce(m) => email_sync_state[m] = e_pre_state[m]
          /\ email_sync_state'[m] # email_sync_state[m] =>
                /\ sm_pc[m] = "set_state"
                /\ state_tx'[m] = <<"InProgress", "UpToDate">>
                /\ e_updated[m] = {}
                /\ "get_emails" \in e_done[m] =>
                      {"emails", "mailbox_emails"} \subseteq e_done[m]
                /\ e_deleted[m] # {} => "delete" \in e_done[m]
          /\ (SmInSyncOnce(m) /\ state_tx'[m] = <<"InProgress", "Error">>) =>
                email_sync_state'[m] = e_pre_state[m]]_vars

\* a call that has upserted emails is about to write a cursor over an older one
C15_Witness ==
    /\ sm_pc[1] = "set_state"
    /\ "mailbox_emails" \in e_done[1]
    /\ e_pre_state[1] # {}
    /\ e_new_state[1] \notin e_pre_state[1]

\* C14: when sync_mailbox_once of a mailbox returns Ok, email_sync_state of
\* the mailbox is the new_state (or query_state) of the call's last changes
\* (or query) response, and no email the server reported destroyed to the
\* call has a row in the Store.
C14_CompletedSyncMatchesServer ==
    [][\A m \in SyncedMailboxes :
          (sm_pc[m] = "set_state" /\ state_tx'[m] = <<"InProgress", "UpToDate">>) =>
              /\ email_sync_state'[m] = {e_new_state[m]}
              /\ \A id \in e_deleted[m] : emails'[id] = NoEmail]_vars

C17_UpsertStoresServerMetadata ==
    [][\A m \in SyncedMailboxes :
          (sm_pc[m] = "upsert" /\ sm_pc'[m] = "membership") =>
              \A id \in EIds(e_list[m]) : emails'[id] = e_list[m][id]]_vars

(***************************************************************************)
(* Part IV.  The JMAP server as the draft pipeline sees it                 *)
(***************************************************************************)
\* the id the server gives to the next email it creates
FreshRemote ==
    CHOOSE r \in RemoteIds :
        /\ remote[r].state = "none"
        /\ \A q \in RemoteIds : remote[q].state = "none" => r <= q

\* the mailbox_id of the payloads the client saves, and the sent_mailbox_id
\* of the client's send request
DraftsMailbox == "Drafts"

SentMailbox == "Sent"

\* Email/set create in the mailbox the payload names, with the $draft
\* keyword iff is_draft
create_email_inner(data, mailbox_id, is_draft) ==
    [remote EXCEPT ![FreshRemote] =
        [state |-> "live", data |-> data, mailbox_id |-> mailbox_id,
         is_draft |-> is_draft, submitted |-> FALSE]]

\* Email/set destroy
delete_jmap_email(r) == [remote EXCEPT ![r].state = "destroyed"]

\* EmailSubmission/set create
submit_email(r) == [remote EXCEPT ![r].submitted = TRUE]

(***************************************************************************)
(* Part IV.  The handlers create_draft, update_draft, delete_draft and the *)
(* start of send_mail.  A handler that makes no remote call is one step:   *)
(* its Store statements, the tokio::spawn and the response.                *)
(***************************************************************************)
Task(kind, id, draft, old_jmap_id, at) ==
    [kind |-> kind, id |-> id, draft |-> draft, old_jmap_id |-> old_jmap_id,
     pc |-> at, jmap_email_id |-> 0]

Spawn(spawned, task) ==
    dr_tasks' = IF spawned THEN Append(dr_tasks, task) ELSE dr_tasks

\* impl From<DraftRecord> for DraftResponse
DraftResponse(status, id, r) ==
    [status |-> status, id |-> id, jmap_email_id |-> r.jmap_email_id,
     data |-> r.data, updated_at |-> r.updated_at,
     synced |-> r.jmap_email_id # 0, email_id |-> 0]

ErrorResponse(status) == [NoResponse EXCEPT !.status = status]

\* the value of a column declared with a default of the current time
UpdatedAtDefault == unixepoch'

\* a request arrives at instant at
DrCall(at) ==
    /\ dr_calls < MaxDraftCalls
    /\ dr_calls' = dr_calls + 1
    /\ at >= unixepoch
    /\ unixepoch' = at
    /\ UNCHANGED has_api

CreateDraft(data, at) ==
    /\ DrCall(at)
    /\ uuid < Cardinality(DraftIds)
    /\ uuid' = uuid + 1
    /\ LET id == uuid + 1
           record == [jmap_email_id |-> 0, data |-> data,
                      updated_at |-> UpdatedAtDefault]
       IN /\ drafts' = [drafts EXCEPT ![id] = record]
          /\ dr_response' = DraftResponse(201, id, record)
          /\ Spawn(has_api, Task("create", id, data, 0, "create_jmap_draft"))
    /\ UNCHANGED <<remote, destroy_issued, last_create>>
    /\ UNCHANGED notDr

UpdateDraft_KeepsOldData(id, data, at) ==
    /\ DrCall(at)
    /\ IF drafts[id] = NoDraft
       THEN /\ dr_response' = ErrorResponse(404)
            /\ UNCHANGED <<drafts, dr_tasks>>
       ELSE LET old_jmap_id == drafts[id].jmap_email_id
                record == [drafts[id] EXCEPT !.updated_at = unixepoch']
            IN /\ drafts' = [drafts EXCEPT ![id] = record]
               /\ dr_response' = DraftResponse(200, id, record)
               /\ Spawn(has_api, Task("update", id, data, old_jmap_id,
                                      "create_jmap_draft"))
    /\ UNCHANGED <<uuid, remote, destroy_issued, last_create>>
    /\ UNCHANGED notDr

UpdateDraft(id, data, at) ==
    /\ DrCall(at)
    /\ IF drafts[id] = NoDraft
       THEN /\ dr_response' = ErrorResponse(404)
            /\ UNCHANGED <<drafts, dr_tasks>>
       ELSE LET old_jmap_id == drafts[id].jmap_email_id
                record == [drafts[id] EXCEPT !.data = data,
                                             !.updated_at = unixepoch']
            IN /\ drafts' = [drafts EXCEPT ![id] = record]
               /\ dr_response' = DraftResponse(200, id, record)
               /\ Spawn(has_api, Task("update", id, data, old_jmap_id,
                                      "create_jmap_draft"))
    /\ UNCHANGED <<uuid, remote, destroy_issued, last_create>>
    /\ UNCHANGED notDr

DeleteDraft(id, at) ==
    /\ DrCall(at)
    /\ IF drafts[id] = NoDraft
       THEN /\ dr_response' = ErrorResponse(404)
            /\ UNCHANGED <<drafts, dr_tasks>>
       ELSE LET jmap_email_id == drafts[id].jmap_email_id
            IN /\ drafts' = [drafts EXCEPT ![id] = NoDraft]
               /\ dr_response' = ErrorResponse(204)
               /\ Spawn(jmap_email_id # 0 /\ has_api,
                        Task("delete", id, 0, jmap_email_id, "delete_jmap_email"))
    /\ UNCHANGED <<uuid, remote, destroy_issued, last_create>>
    /\ UNCHANGED notDr

\* send_mail up to its first remote call
SendDraft(id, at) ==
    /\ DrCall(at)
    /\ IF drafts[id] = NoDraft \/ ~has_api
       THEN /\ dr_response' = ErrorResponse(404)
            /\ UNCHANGED dr_tasks
       ELSE /\ Spawn(TRUE, Task("send", id, drafts[id].data,
                                drafts[id].jmap_email_id, "create_email"))
            /\ UNCHANGED dr_response
    /\ UNCHANGED <<drafts, uuid, remote, destroy_issued, last_create>>
    /\ UNCHANGED notDr

(***************************************************************************)
(* Part IV.  The detached tasks sync_draft_create, sync_draft_update, the  *)
(* destroy tasks of delete_draft and send_mail, and the rest of send_mail. *)
(* Every step is one remote call or one Store statement of task t; ok is   *)
(* the outcome of the remote call.                                         *)
(***************************************************************************)
Tasks == 1 .. Len(dr_tasks)

At(t, at) == t \in Tasks /\ dr_tasks[t].pc = at

\* task t moves on; a task that is done is gone
Goto(t, at) ==
    dr_tasks' = IF at = "done"
                THEN SubSeq(dr_tasks, 1, t - 1) \o SubSeq(dr_tasks, t + 1, Len(dr_tasks))
                ELSE [dr_tasks EXCEPT ![t].pc = at]

\* UPDATE drafts SET jmap_email_id = ? WHERE id = ? AND account_id = ?
SetJmapId(id, jmap_email_id) ==
    IF drafts[id] = NoDraft THEN drafts
    ELSE [drafts EXCEPT ![id].jmap_email_id = jmap_email_id]

TaskCreateJmapDraft_DestroysOnFailure(t, ok) ==
    /\ At(t, "create_jmap_draft")
    /\ LET task == dr_tasks[t]
       IN IF ok
          THEN /\ remote' = create_email_inner(task.draft, DraftsMailbox, TRUE)
               /\ dr_tasks' = [dr_tasks EXCEPT ![t].jmap_email_id = FreshRemote,
                                               ![t].pc = "set_draft_jmap_id"]
               /\ UNCHANGED last_create
          ELSE /\ UNCHANGED remote
               /\ Goto(t, IF task.kind = "update" /\ task.old_jmap_id # 0
                          THEN "delete_jmap_email" ELSE "done")
               /\ last_create' = [last_create EXCEPT ![task.id] = "failed"]
    /\ UNCHANGED <<drafts, uuid, unixepoch, dr_calls, has_api, dr_response, destroy_issued>>
    /\ UNCHANGED notDr

\* api.create_jmap_draft(draft).await of both tasks
TaskCreateJmapDraft(t, ok) ==
    /\ At(t, "create_jmap_draft")
    /\ LET task == dr_tasks[t]
       IN IF ok
          THEN /\ remote' = create_email_inner(task.draft, DraftsMailbox, TRUE)
               /\ dr_tasks' = [dr_tasks EXCEPT ![t].jmap_email_id = FreshRemote,
                                               ![t].pc = "set_draft_jmap_id"]
               /\ UNCHANGED last_create
          ELSE /\ UNCHANGED remote
               /\ Goto(t, IF task.kind = "update" /\ task.old_jmap_id # 0
                          THEN "clear_draft_jmap_id" ELSE "done")
               /\ last_create' = [last_create EXCEPT ![task.id] = "failed"]
    /\ UNCHANGED <<drafts, uuid, unixepoch, dr_calls, has_api, dr_response, destroy_issued>>
    /\ UNCHANGED notDr

TaskSetDraftJmapId_NoStore(t) ==
    /\ At(t, "set_draft_jmap_id")
    /\ Goto(t, "done")
    /\ UNCHANGED <<drafts, uuid, unixepoch, remote, dr_calls, has_api, dr_response,
                   destroy_issued, last_create>>
    /\ UNCHANGED notDr

TaskSetDraftJmapId(t) ==
    /\ At(t, "set_draft_jmap_id")
    /\ LET task == dr_tasks[t]
       IN /\ drafts' = SetJmapId(task.id, task.jmap_email_id)
          /\ Goto(t, IF task.kind = "update" /\ task.old_jmap_id # 0
                     THEN "delete_jmap_email" ELSE "done")
          /\ last_create' = [last_create EXCEPT ![task.id] = "ok"]
    /\ UNCHANGED <<uuid, unixepoch, remote, dr_calls, has_api, dr_response,
                   destroy_issued>>
    /\ UNCHANGED notDr

TaskClearDraftJmapId_Keeps(t) ==
    /\ At(t, "clear_draft_jmap_id")
    /\ Goto(t, "done")
    /\ UNCHANGED <<drafts, uuid, unixepoch, remote, dr_calls, has_api, dr_response,
                   destroy_issued, last_create>>
    /\ UNCHANGED notDr

TaskClearDraftJmapId(t) ==
    /\ At(t, "clear_draft_jmap_id")
    /\ drafts' = SetJmapId(dr_tasks[t].id, 0)
    /\ last_create' = [last_create EXCEPT ![dr_tasks[t].id] = "cleared"]
    /\ Goto(t, "done")
    /\ UNCHANGED <<uuid, unixepoch, remote, dr_calls, has_api, dr_response, destroy_issued>>
    /\ UNCHANGED notDr

\* api.delete_jmap_email(old).await of sync_draft_update and of the tasks
\* delete_draft and send_mail spawn; its error is only logged
TaskDeleteJmapEmail(t, ok) ==
    /\ At(t, "delete_jmap_email")
    /\ LET old == dr_tasks[t].old_jmap_id
       IN /\ destroy_issued' = destroy_issued \cup {old}
          /\ remote' = IF ok /\ remote[old].state = "live"
                       THEN delete_jmap_email(old) ELSE remote
    /\ Goto(t, "done")
    /\ UNCHANGED <<drafts, uuid, unixepoch, dr_calls, has_api, dr_response, last_create>>
    /\ UNCHANGED notDr

SendCreateEmail_AsDraft(t, ok) ==
    /\ At(t, "create_email")
    /\ IF ok
       THEN /\ remote' = create_email_inner(dr_tasks[t].draft, DraftsMailbox, TRUE)
            /\ dr_tasks' = [dr_tasks EXCEPT ![t].jmap_email_id = FreshRemote,
                                            ![t].pc = "submit_email"]
            /\ UNCHANGED dr_response
       ELSE /\ dr_response' = ErrorResponse(500)
            /\ Goto(t, "done")
            /\ UNCHANGED remote
    /\ UNCHANGED <<drafts, uuid, unixepoch, dr_calls, has_api, destroy_issued,
                   last_create>>
    /\ UNCHANGED notDr

\* api.create_email(draft.data).await of send_mail
SendCreateEmail(t, ok) ==
    /\ At(t, "create_email")
    /\ IF ok
       THEN /\ remote' = create_email_inner(dr_tasks[t].draft, SentMailbox, FALSE)
            /\ dr_tasks' = [dr_tasks EXCEPT ![t].jmap_email_id = FreshRemote,
                                            ![t].pc = "submit_email"]
            /\ UNCHANGED dr_response
       ELSE /\ dr_response' = ErrorResponse(500)
            /\ Goto(t, "done")
            /\ UNCHANGED remote
    /\ UNCHANGED <<drafts, uuid, unixepoch, dr_calls, has_api, destroy_issued,
                   last_create>>
    /\ UNCHANGED notDr

SendSubmitEmail_DeletesAnyway(t, ok) ==
    /\ At(t, "submit_email")
    /\ remote' = IF ok THEN submit_email(dr_tasks[t].jmap_email_id) ELSE remote
    /\ Goto(t, "delete_draft")
    /\ UNCHANGED <<drafts, uuid, unixepoch, dr_calls, has_api, dr_response,
                   destroy_issued, last_create>>
    /\ UNCHANGED notDr

\* api.submit_email(email_id, identity_id).await of send_mail
SendSubmitEmail(t, ok) ==
    /\ At(t, "submit_email")
    /\ IF ok
       THEN /\ remote' = submit_email(dr_tasks[t].jmap_email_id)
            /\ Goto(t, "delete_draft")
            /\ UNCHANGED dr_response
       ELSE /\ dr_response' = ErrorResponse(500)
            /\ Goto(t, "done")
            /\ UNCHANGED remote
    /\ UNCHANGED <<drafts, uuid, unixepoch, dr_calls, has_api, destroy_issued,
                   last_create>>
    /\ UNCHANGED notDr

\* repo.delete_draft, the tokio::spawn of the destroy and the response of
\* send_mail
SendDeleteDraft(t) ==
    /\ At(t, "delete_draft")
    /\ drafts' = [drafts EXCEPT ![dr_tasks[t].id] = NoDraft]
    /\ dr_response' = [NoResponse EXCEPT !.status = 201,
                                         !.email_id = dr_tasks[t].jmap_email_id]
    /\ Goto(t, IF dr_tasks[t].old_jmap_id # 0 THEN "delete_jmap_email" ELSE "done")
    /\ UNCHANGED <<uuid, unixepoch, remote, dr_calls, has_api, destroy_issued,
                   last_create>>
    /\ UNCHANGED notDr

(***************************************************************************)
(* Part IV.  The draft pipeline of one account: the client's requests in   *)
(* any order, each task at its own pace, every remote call free to fail.   *)
(***************************************************************************)
NextDrafts ==
    \/ \E data \in Payloads, at \in Instants : CreateDraft(data, at)
    \/ \E id \in DraftIds, data \in Payloads, at \in Instants :
          UpdateDraft(id, data, at)
    \/ \E id \in DraftIds, at \in Instants : DeleteDraft(id, at)
    \/ \E id \in DraftIds, at \in Instants : SendDraft(id, at)
    \/ \E t \in Tasks, ok \in BOOLEAN : TaskCreateJmapDraft(t, ok)
    \/ \E t \in Tasks : TaskSetDraftJmapId(t)
    \/ \E t \in Tasks : TaskClearDraftJmapId(t)
    \/ \E t \in Tasks, ok \in BOOLEAN : TaskDeleteJmapEmail(t, ok)
    \/ \E t \in Tasks, ok \in BOOLEAN : SendCreateEmail(t, ok)
    \/ \E t \in Tasks, ok \in BOOLEAN : SendSubmitEmail(t, ok)
    \/ \E t \in Tasks : SendDeleteDraft(t)

\* Either nothing was ever drafted, or draft 1 was created earlier and the
\* task of that create_draft has finished: it stored the id of the copy it
\* made (mirrored), or its create_jmap_draft failed.  The payloads are
\* interchangeable, so the earlier one is payload 1.
InitDrafts ==
    /\ InitLater
    /\ InitApi(TRUE)
    /\ InitMl(NoMailboxes)
    /\ InitEm(NoEmails)
    /\ \/ InitDr
       \/ /\ has_api \in BOOLEAN
          /\ \E data \in {x \in Payloads : \A y \in Payloads : x <= y},
                mirrored \in BOOLEAN :
                /\ drafts = [id \in DraftIds |->
                                IF id = 1
                                THEN [jmap_email_id |-> IF mirrored THEN 1 ELSE 0,
                                      data |-> data, updated_at |-> 0]
                                ELSE NoDraft]
                /\ uuid = 1
                /\ unixepoch = 0
                /\ remote = [r \in RemoteIds |->
                                IF r = 1 /\ mirrored
                                THEN [state |-> "live", data |-> data,
                                      mailbox_id |-> DraftsMailbox,
                                      is_draft |-> TRUE, submitted |-> FALSE]
                                ELSE NoRemote]
                /\ dr_tasks = << >>
                /\ dr_calls = 0
                /\ dr_response = NoResponse
                /\ destroy_issued = {}
                /\ last_create = [id \in DraftIds |->
                                     IF id # 1 THEN "none"
                                     ELSE IF mirrored THEN "ok" ELSE "failed"]

SpecDrafts == InitDrafts /\ [][NextDrafts]_vars

\* The draft pipeline with a server that accepts every call: no remote call
\* fails, so no task runs clear_draft_jmap_id, and the draft that exists at
\* the start has its copy.
NextDraftsOk ==
    \/ \E data \in Payloads, at \in Instants : CreateDraft(data, at)
    \/ \E id \in DraftIds, data \in Payloads, at \in Instants :
          UpdateDraft(id, data, at)
    \/ \E id \in DraftIds, at \in Instants : DeleteDraft(id, at)
    \/ \E id \in DraftIds, at \in Instants : SendDraft(id, at)
    \/ \E t \in Tasks : TaskCreateJmapDraft(t, TRUE)
    \/ \E t \in Tasks : TaskSetDraftJmapId(t)
    \/ \E t \in Tasks : TaskDeleteJmapEmail(t, TRUE)
    \/ \E t \in Tasks : SendCreateEmail(t, TRUE)
    \/ \E t \in Tasks : SendSubmitEmail(t, TRUE)
    \/ \E t \in Tasks : SendDeleteDraft(t)

InitDraftsOk ==
    /\ InitDrafts
    /\ has_api
    /\ \A id \in DraftIds : last_create[id] # "failed"

SpecDraftsOk == InitDraftsOk /\ [][NextDraftsOk]_vars

(***************************************************************************)
(* Part IV over Part I.  create_draft and its task sync_draft_create over  *)
(* the JmapApi of the account: create_jmap_draft is send_ws_request, so    *)
(* the task's request goes through the channel and the multiplexer.        *)
(***************************************************************************)
\* the request of the task among the callers of the JmapApi
DraftRequest == 1

\* send_ws_request of create_email_inner: the request enters the channel
MirrorIssue(t) ==
    /\ At(t, "create_jmap_draft")
    /\ SendWsRequest(DraftRequest)

\* resp_rx.await of send_ws_request returns.  A delivered method response is
\* the Email/set response that names the created email; every other
\* outcome is an Err of create_jmap_draft.
MirrorResult(t) ==
    /\ st[DraftRequest] \in {"ok", "empty", "transport", "dropped", "queue_failed"}
    /\ TaskCreateJmapDraft(t, st[DraftRequest] = "ok")

MirrorTaskStep ==
    \E t \in Tasks : MirrorResult(t) \/ TaskSetDraftJmapId(t)

NextDraftOffline ==
    \/ NetworkChange
    \/ Tick(ConnectDelay, MaxTime)
    \/ TaskStep
    \/ \E data \in Payloads, at \in Instants : CreateDraft(data, at)
    \/ \E t \in Tasks : MirrorIssue(t)
    \/ \E t \in Tasks : MirrorResult(t)
    \/ \E t \in Tasks : TaskSetDraftJmapId(t)

\* tokio runs a spawned task whenever the future it awaits is ready
SpecDraftOffline ==
    InitConn /\ [][NextDraftOffline]_vars /\ WF_vars(MirrorTaskStep)

(***************************************************************************)
(* Properties of Part IV                                                   *)
(***************************************************************************)
\* the step is a request handled by create_draft, update_draft,
\* delete_draft or the start of send_mail
HandlerStep == dr_calls' = dr_calls + 1

\* the step is the next remote call or Store statement of task t
StepOf(t) ==
    /\ dr_calls' = dr_calls
    /\ \/ Goto(t, "done")
       \/ /\ Len(dr_tasks') = Len(dr_tasks)
          /\ dr_tasks'[t] # dr_tasks[t]
          /\ \A u \in Tasks \ {t} : dr_tasks'[u] = dr_tasks[u]

\* the task the handler of this step spawned, if it spawned one
Spawned == Len(dr_tasks') = Len(dr_tasks) + 1

NewTask == dr_tasks'[Len(dr_tasks')]

\* C18: whatever the remote calls do, the row of a draft disappears only in
\* delete_draft or in send_mail after its submit_email succeeded; the
\* columns data and updated_at are written by the handlers create_draft and
\* update_draft only, which store the payload and the time of the request;
\* no step of a background task changes them.
C18_LocalDraftIsAuthoritative ==
    [][\A id \in DraftIds :
          /\ (drafts[id] # NoDraft /\ drafts'[id] = NoDraft) =>
                \/ HandlerStep /\ dr_response'.status = 204
                \/ \E t \in Tasks :
                      /\ StepOf(t)
                      /\ dr_tasks[t].kind = "send"
                      /\ dr_tasks[t].id = id
                      /\ dr_tasks[t].pc = "delete_draft"
                      /\ remote[dr_tasks[t].jmap_email_id].submitted
          /\ (HandlerStep /\ Spawned /\ NewTask.id = id
                /\ NewTask.kind \in {"create", "update"}) =>
                /\ drafts'[id].data = NewTask.draft
                /\ drafts'[id].updated_at = unixepoch'
                /\ dr_response'.data = NewTask.draft
          /\ (~HandlerStep /\ drafts'[id] # NoDraft) =>
                /\ drafts'[id].data = drafts[id].data
                /\ drafts'[id].updated_at = drafts[id].updated_at]_vars

\* an update was stored at a later instant, its remote create failed and
\* the task cleared the mirror id: the row holds the update
C18_Witness ==
    /\ dr_tasks = << >>
    /\ last_create[1] = "cleared"
    /\ drafts[1].data = 2
    /\ drafts[1].updated_at = 1
    /\ drafts[1].jmap_email_id = 0

\* C19: once no task of sync_draft_create or sync_draft_update is running
\* for a draft, its jmap_email_id is non-null exactly when the remote
\* create that finished last for it succeeded and no failing update cleared
\* the id afterwards.
C19_MirrorIdIffLastCreateSucceeded ==
    \A id \in DraftIds :
        (/\ drafts[id] # NoDraft
         /\ \A t \in Tasks :
               dr_tasks[t].id = id => dr_tasks[t].kind \notin {"create", "update"}) =>
            (drafts[id].jmap_email_id # 0 <=> last_create[id] = "ok")

\* C20: update_draft on a draft with a mirror id R1 answers with the stored
\* record before any remote call of its task is made; when the task's
\* create_jmap_draft fails, the task makes no other remote call, destroys
\* nothing and its last step sets jmap_email_id to NULL; when the create of
\* a task succeeds, its next step stores the id of the email just created.
C20_FailedUpdateClearsMirror ==
    [][/\ \A id \in DraftIds :
             (HandlerStep /\ Spawned /\ NewTask.id = id /\ NewTask.kind = "update") =>
                /\ dr_response' = DraftResponse(200, id, drafts'[id])
                /\ NewTask.pc = "create_jmap_draft"
                /\ NewTask.old_jmap_id = drafts[id].jmap_email_id
                /\ drafts'[id].jmap_email_id = drafts[id].jmap_email_id
                /\ remote' = remote
       /\ \A t \in Tasks :
             LET task == dr_tasks[t]
             IN (StepOf(t) /\ task.kind = "update") =>
                /\ (task.pc = "create_jmap_draft" /\ remote' = remote
                      /\ task.old_jmap_id # 0) =>
                      /\ Goto(t, "clear_draft_jmap_id")
                      /\ destroy_issued' = destroy_issued
                /\ task.pc = "clear_draft_jmap_id" =>
                      /\ Goto(t, "done")
                      /\ destroy_issued' = destroy_issued
                      /\ remote' = remote
                      /\ drafts'[task.id].jmap_email_id = 0
                /\ (task.pc = "create_jmap_draft" /\ remote' # remote) =>
                      /\ dr_tasks'[t].pc = "set_draft_jmap_id"
                      /\ remote[dr_tasks'[t].jmap_email_id].state = "none"
                      /\ remote'[dr_tasks'[t].jmap_email_id] =
                            [state |-> "live", data |-> task.draft,
                             mailbox_id |-> DraftsMailbox,
                             is_draft |-> TRUE, submitted |-> FALSE]
                /\ (task.pc = "set_draft_jmap_id" /\ drafts[task.id] # NoDraft) =>
                      drafts'[task.id].jmap_email_id = task.jmap_email_id]_vars

\* the draft had the mirror id 1; an update's create failed and the id was
\* cleared without a destroy of email 1; the next update's create made
\* email 2 and stored its id
C20_Witness ==
    /\ dr_calls = 2
    /\ dr_tasks = << >>
    /\ drafts[1].jmap_email_id = 2
    /\ last_create[1] = "ok"
    /\ 1 \notin destroy_issued
    /\ remote[1].state = "live"

C38_MirrorHoldsCurrentData ==
    \A id \in DraftIds :
        (has_api /\ drafts[id] # NoDraft /\ dr_tasks = << >>
            /\ drafts[id].jmap_email_id # 0) =>
            remote[drafts[id].jmap_email_id].data = drafts[id].data

\* the emails on the server that are draft copies: live, in the Drafts
\* mailbox with the $draft keyword
DraftCopies ==
    {r \in RemoteIds : remote[r].state = "live" /\ remote[r].is_draft}

\* C39: when every remote call succeeds and every background task has
\* finished, the server holds no draft copy but the one jmap_email_id names
\* while the local draft exists, and no draft copy at all once the draft
\* was deleted or sent, whatever the interleaving of the handlers and
\* their tasks was.
C39_AtMostOneRemoteCopy ==
    dr_tasks = << >> =>
        \A id \in DraftIds :
            IF drafts[id] = NoDraft
            THEN DraftCopies = {}
            ELSE DraftCopies \subseteq {drafts[id].jmap_email_id}

(***************************************************************************)
(* Part V.  The change bus of the Repository and the mutations that its    *)
(* callers make.  rows stands for rows_affected() of a statement.          *)
(***************************************************************************)
\* broadcast::Sender::send of notify_changes: every subscribed receiver
\* gets the value; a receiver that is ChangesCapacity values behind loses
\* its oldest one.  The error of a send without receivers is ignored.
notify_changes(tables) ==
    /\ sent' = sent + 1
    /\ IF sa_pc = "returned"
       THEN UNCHANGED <<changes, lagged>>
       ELSE LET value == [n |-> sent + 1, tables |-> tables]
            IN IF Len(changes) = ChangesCapacity
               THEN /\ changes' = Append(Tail(changes), value)
                    /\ lagged' = TRUE
               ELSE /\ changes' = Append(changes, value)
                    /\ UNCHANGED lagged

\* a mutation that changed rows of the tables `changed` and called
\* notify_changes(tables), or did not call it (tables = {})
Mutate(changed, tables) ==
    /\ mutations < MaxMutations
    /\ mutations' = mutations + 1
    /\ last_mutation' = [changed |-> changed, tables |-> tables]
    /\ IF tables # {}
       THEN notify_changes(tables)
       ELSE UNCHANGED <<sent, changes, lagged>>
    /\ UNCHANGED <<states, sa_pc, sa_listed, received, sa_spawned>>
    /\ UNCHANGED notSa

\* INSERT INTO accounts ... RETURNING id
add_account(account) ==
    /\ \E id \in AccountIds :
          /\ accounts[id] = NoAccount
          /\ \A other \in AccountIds : accounts[other] = NoAccount => id <= other
          /\ accounts' = [accounts EXCEPT ![id] = account]
    /\ Mutate({"accounts"}, {})

\* the upsert, the delete and UPDATE accounts SET mailboxes_sync_state of
\* one transaction
repo_update_mailboxes(num_inserted, num_deleted) ==
    /\ Mutate({"accounts"} \cup (IF num_inserted + num_deleted > 0
                                 THEN {"mailboxes"} ELSE {}),
              IF num_inserted > 0 \/ num_deleted > 0 THEN {"mailboxes"} ELSE {})
    /\ UNCHANGED accounts

\* UPDATE mailboxes SET email_sync_state = ?
set_mailbox_email_sync_state(rows) ==
    /\ Mutate(IF rows > 0 THEN {"mailboxes"} ELSE {}, {})
    /\ UNCHANGED accounts

\* DELETE FROM emails; the links of a deleted email go with it
repo_delete_emails(rows) ==
    /\ Mutate(IF rows > 0 THEN {"emails", "mailbox_emails"} ELSE {},
              IF rows > 0 THEN {"emails"} ELSE {})
    /\ UNCHANGED accounts

\* the upsert into emails (rows), and the insert and the delete on
\* mailbox_emails (links)
repo_update_emails(rows, links) ==
    /\ Mutate((IF rows > 0 THEN {"emails"} ELSE {})
                 \cup (IF links > 0 THEN {"mailbox_emails"} ELSE {}),
              IF rows + links > 0 THEN {"emails", "mailbox_emails"} ELSE {})
    /\ UNCHANGED accounts

\* create_draft, update_draft_data, set_draft_jmap_id, clear_draft_jmap_id
\* and delete_draft: one statement on drafts each
DraftStatements ==
    {"create_draft", "update_draft_data", "set_draft_jmap_id",
     "clear_draft_jmap_id", "delete_draft"}

repo_drafts(statement, rows) ==
    /\ statement \in DraftStatements
    /\ Mutate(IF rows > 0 THEN {"drafts"} ELSE {}, {})
    /\ UNCHANGED accounts

\* INSERT INTO blobs ... ON CONFLICT DO UPDATE SET last_accessed
save_blob ==
    /\ Mutate({"blobs"}, {})
    /\ UNCHANGED accounts

(***************************************************************************)
(* Part V.  sync_accounts                                                  *)
(***************************************************************************)
\* Url::parse of account.server_url
UrlParses(server_url) == server_url # "not a url"

\* the orders in which a HashMap can yield the keys S
Orders(S) ==
    {o \in [1 .. Cardinality(S) -> S] :
        \A i, j \in 1 .. Cardinality(S) : o[i] = o[j] => i = j}

\* the for loop over the listed accounts: an account tracked with the same
\* snapshot is skipped; for any other one the url is parsed, which ends
\* sync_accounts with an Err when it fails, and a new AccountState with a
\* new JoinSet running sync_account replaces the tracked one
RECURSIVE AddStates(_, _, _)
AddStates(order, listed, acc) ==
    IF order = << >> \/ acc.err
    THEN acc
    ELSE LET id == Head(order)
         IN IF acc.states[id] = listed[id]
            THEN AddStates(Tail(order), listed, acc)
            ELSE IF ~UrlParses(listed[id].server_url)
            THEN [acc EXCEPT !.err = TRUE]
            ELSE AddStates(Tail(order), listed,
                           [acc EXCEPT !.states[id] = listed[id],
                                       !.spawned[id] = @ + 1])

\* repo.list_accounts().await
SaListAccounts ==
    /\ sa_pc = "list_accounts"
    /\ sa_listed' = accounts
    /\ sa_pc' = "update_states"
    /\ UNCHANGED <<accounts, sent, changes, lagged, states, mutations,
                   last_mutation, received, sa_spawned>>
    /\ UNCHANGED notSa

\* the block under states.write(): retain, then the for loop
SaUpdateStates(order) ==
    /\ sa_pc = "update_states"
    /\ LET retained == [id \in AccountIds |->
                           IF sa_listed[id] = NoAccount THEN NoAccount
                           ELSE states[id]]
           result == AddStates(order, sa_listed,
                               [states |-> retained, spawned |-> sa_spawned,
                                err |-> FALSE])
       IN /\ states' = result.states
          /\ sa_spawned' = result.spawned
          /\ sa_pc' = IF result.err THEN "returned" ELSE "recv"
          /\ changes' = IF result.err THEN << >> ELSE changes
    /\ UNCHANGED <<accounts, sent, lagged, sa_listed, mutations, last_mutation,
                   received>>
    /\ UNCHANGED notSa

\* changes.recv().await of the inner loop: Lagged is an Err that ends
\* sync_accounts; a value naming "accounts" starts the next iteration
SaRecv ==
    /\ sa_pc = "recv"
    /\ changes # << >>
    /\ IF lagged
       THEN /\ sa_pc' = "returned"
            /\ changes' = << >>
            /\ UNCHANGED received
       ELSE /\ sa_pc' = IF "accounts" \in Head(changes).tables
                        THEN "list_accounts" ELSE "recv"
            /\ changes' = Tail(changes)
            /\ received' = Append(received, Head(changes).n)
    /\ UNCHANGED <<accounts, sent, lagged, states, sa_listed, mutations,
                   last_mutation, sa_spawned>>
    /\ UNCHANGED notSa

NextAccounts ==
    \/ \E account \in Account : add_account(account)
    \/ \E num_inserted, num_deleted \in 0 .. 1 :
          repo_update_mailboxes(num_inserted, num_deleted)
    \/ \E rows \in 0 .. 1 : set_mailbox_email_sync_state(rows)
    \/ \E rows \in 0 .. 1 : repo_delete_emails(rows)
    \/ \E rows, links \in 0 .. 1 : repo_update_emails(rows, links)
    \/ \E statement \in DraftStatements, rows \in 0 .. 1 :
          repo_drafts(statement, rows)
    \/ save_blob
    \/ SaListAccounts
    \/ \E order \in Orders({id \in AccountIds : sa_listed[id] # NoAccount}) :
          SaUpdateStates(order)
    \/ SaRecv

\* the rows add_account has inserted before sync_accounts starts
InitAccounts ==
    /\ InitApi(TRUE)
    /\ InitMl(NoMailboxes)
    /\ InitEm(NoEmails)
    /\ InitDr
    /\ InitRt({})
    /\ InitPt
    /\ InitFl(0)
    /\ InitCp(<< >>, 1)
    /\ InitWc
    /\ \E rows \in [AccountIds -> Account \cup {NoAccount}] :
          /\ \A i, j \in AccountIds :
                (i < j /\ rows[j] # NoAccount) => rows[i] # NoAccount
          /\ InitSa(rows)

SpecAccounts == InitAccounts /\ [][NextAccounts]_vars

\* C21: create_draft called while ClientState is not Connected stores the
\* row under an id no row had, answers 201 with that record (jmap_email_id
\* null, the payload of the request) and spawns the task without touching
\* the connection; the task's request waits in the channel, and once a
\* later session has delivered the response of the create, the task stores
\* the id of the created email in the row.
C21_OfflineCreateIsMirroredLater ==
    /\ [][(HandlerStep /\ client_state.kind # "Connected") =>
             /\ drafts[uuid'] = NoDraft
             /\ Spawned
             /\ NewTask = Task("create", uuid', drafts'[uuid'].data, 0,
                               "create_jmap_draft")
             /\ dr_response' = [NoResponse EXCEPT !.status = 201,
                                                  !.id = uuid',
                                                  !.data = NewTask.draft,
                                                  !.updated_at = unixepoch']
             /\ drafts'[uuid'].jmap_email_id = 0
             /\ UNCHANGED apiVars]_vars
    /\ [][(st[DraftRequest] = "idle" /\ st'[DraftRequest] # "idle"
             /\ pc # "returned") => st'[DraftRequest] = "queued"]_vars
    /\ (DraftRequest \in issued_offline /\ st[DraftRequest] = "ok")
          ~> (drafts[1].jmap_email_id # 0)

\* the request was issued before the first session, a session delivered its
\* response and the id of the created email is in the row
C21_Witness ==
    /\ DraftRequest \in issued_offline
    /\ st[DraftRequest] = "ok"
    /\ session >= 1
    /\ dr_tasks = << >>
    /\ drafts[1].jmap_email_id # 0
    /\ remote[drafts[1].jmap_email_id].data = drafts[1].data

\* the step is the next remote call or Store statement of send_mail for
\* the request that task t stands for
SendStepOf(t) == StepOf(t) /\ dr_tasks[t].kind = "send"

\* C22: send_mail makes its calls in this order, each one only after the
\* one before it succeeded: create_email makes a new email in the sent
\* mailbox without the $draft keyword, submit_email submits that email, the
\* row of the draft is deleted (never before the submission succeeded), and
\* only then is the destroy of the old mirror issued; a destroy that
\* succeeds leaves the row and the old mirror gone and the new email in the
\* sent mailbox.
C22_SendOrder ==
    [][\A t \in Tasks : SendStepOf(t) =>
          LET task == dr_tasks[t]
              old == task.old_jmap_id
          IN /\ (task.pc = "create_email" /\ remote' # remote) =>
                   /\ dr_tasks'[t].pc = "submit_email"
                   /\ remote[dr_tasks'[t].jmap_email_id].state = "none"
                   /\ remote'[dr_tasks'[t].jmap_email_id] =
                         [state |-> "live", data |-> task.draft,
                          mailbox_id |-> SentMailbox,
                          is_draft |-> FALSE, submitted |-> FALSE]
                   /\ drafts' = drafts
                   /\ destroy_issued' = destroy_issued
             /\ (task.pc = "submit_email" /\ remote' # remote) =>
                   /\ Goto(t, "delete_draft")
                   /\ remote' = submit_email(task.jmap_email_id)
                   /\ drafts' = drafts
                   /\ destroy_issued' = destroy_issued
             /\ drafts'[task.id] # drafts[task.id] =>
                   /\ task.pc = "delete_draft"
                   /\ remote[task.jmap_email_id].submitted
             /\ task.pc = "delete_draft" =>
                   /\ remote[task.jmap_email_id].submitted
                   /\ drafts'[task.id] = NoDraft
                   /\ dr_response'.status = 201
                   /\ dr_response'.email_id = task.jmap_email_id
                   /\ destroy_issued' = destroy_issued
                   /\ remote' = remote
                   /\ Goto(t, IF old # 0 THEN "delete_jmap_email" ELSE "done")
             /\ task.pc = "delete_jmap_email" =>
                   /\ drafts[task.id] = NoDraft
                   /\ destroy_issued' = destroy_issued \cup {old}
                   /\ remote' = remote \/ remote' = delete_jmap_email(old)
                   /\ remote'[task.jmap_email_id].state = "live"
                   /\ remote'[task.jmap_email_id].mailbox_id = SentMailbox
                   /\ remote'[task.jmap_email_id].submitted
                   /\ ~remote'[task.jmap_email_id].is_draft]_vars

\* the draft mirrored as email 1 was sent: email 2 is in the sent mailbox,
\* submitted, the row is gone and email 1 is destroyed
C22_Witness ==
    /\ dr_tasks = << >>
    /\ dr_response.status = 201
    /\ dr_response.email_id = 2
    /\ drafts[1] = NoDraft
    /\ remote[1].state = "destroyed"
    /\ 1 \in destroy_issued
    /\ remote[2] = [state |-> "live", data |-> 1, mailbox_id |-> SentMailbox,
                    is_draft |-> FALSE, submitted |-> TRUE]

\* C23: when create_email or submit_email of send_mail fails, the request
\* is answered with an error and send_mail ends there: the row of the
\* draft keeps its data and its jmap_email_id and no destroy is issued.
C23_SendFailureKeepsDraft ==
    [][\A t \in Tasks :
          (SendStepOf(t) /\ dr_tasks[t].pc \in {"create_email", "submit_email"}
              /\ remote' = remote) =>
                /\ dr_response' = ErrorResponse(500)
                /\ Goto(t, "done")
                /\ drafts' = drafts
                /\ destroy_issued' = destroy_issued]_vars

\* the submission of a mirrored draft failed: the email made for sending is
\* there, not submitted, and the row and its mirror are as they were
C23_Witness ==
    /\ dr_tasks = << >>
    /\ dr_calls = 1
    /\ dr_response = ErrorResponse(500)
    /\ drafts[1] = [jmap_email_id |-> 1, data |-> 1, updated_at |-> 0]
    /\ remote[1].state = "live"
    /\ destroy_issued = {}
    /\ remote[2].state = "live" /\ ~remote[2].submitted /\ ~remote[2].is_draft

(***************************************************************************)
(* Part VI.  handle_watch_mailbox_command, sync_mailboxes and the watcher  *)
(* side of sync_mailbox.  A request is the oneshot sender of a command;    *)
(* it is cancelled when the sender is dropped without a value sent.        *)
(***************************************************************************)
SeqToSet(q) == {q[i] : i \in 1 .. Len(q)}

\* the oneshot senders in `dropped` are dropped
Cancel(dropped) ==
    [r \in WatchCommands |->
        IF r \in dropped THEN [wreq[r] EXCEPT !.status = "cancelled"] ELSE wreq[r]]

\* handle_watch_mailbox_command up to rx.await: the request is sent to
\* sync_mailboxes; with the receiver gone the send fails and the sender of
\* the oneshot is dropped with the task
RtSend(r, m) ==
    /\ wreq[r].status = "idle"
    /\ Len(mailbox_watch_request_rx) < RouterQueueCapacity
    /\ IF rt_pc = "returned"
       THEN /\ wreq' = [wreq EXCEPT ![r] = [mailbox_id |-> m, status |-> "cancelled",
                                            by |-> 0]]
            /\ UNCHANGED mailbox_watch_request_rx
       ELSE /\ wreq' = [wreq EXCEPT ![r] = [mailbox_id |-> m, status |-> "sent",
                                            by |-> 0]]
            /\ mailbox_watch_request_rx' = Append(mailbox_watch_request_rx, r)
    /\ UNCHANGED <<mailbox_ids, sub, rt_pc, mailbox_workers, running,
                   watch_request_rx, mailbox_changes, rt_spawned>>
    /\ UNCHANGED notRt

\* update_mailboxes inserts or deletes rows and broadcasts ["mailboxes"]
RtStoreChange(ids) ==
    /\ mailbox_changes < MaxMailboxChanges
    /\ ids # mailbox_ids
    /\ mailbox_changes' = mailbox_changes + 1
    /\ mailbox_ids' = ids
    /\ sub' = IF rt_pc = "returned" THEN sub ELSE sub + 1
    /\ UNCHANGED <<rt_pc, mailbox_workers, running, mailbox_watch_request_rx,
                   watch_request_rx, wreq, rt_spawned>>
    /\ UNCHANGED notRt

\* lines 65-94: the workers of the mailboxes that are gone are dropped,
\* which aborts their tasks and drops what is in their channels; a worker
\* is started for every mailbox that has none
RtGetMailboxIds_SpawnsAll ==
    /\ rt_pc = "get_mailbox_ids"
    /\ rt_pc' = "select"
    /\ mailbox_workers' = mailbox_ids
    /\ running' = mailbox_ids
    /\ rt_spawned' = [m \in RtMailboxIds |->
                         IF m \in mailbox_ids /\ rt_spawned[m] < MaxMailboxChanges + 1
                         THEN rt_spawned[m] + 1 ELSE rt_spawned[m]]
    /\ watch_request_rx' = [m \in RtMailboxIds |-> << >>]
    /\ wreq' = Cancel(UNION {SeqToSet(watch_request_rx[m]) : m \in RtMailboxIds})
    /\ UNCHANGED <<mailbox_ids, sub, mailbox_watch_request_rx, mailbox_changes>>
    /\ UNCHANGED notRt

RtGetMailboxIds ==
    /\ rt_pc = "get_mailbox_ids"
    /\ rt_pc' = "select"
    /\ mailbox_workers' = mailbox_ids
    /\ running' = (running \cap mailbox_ids) \cup (mailbox_ids \ mailbox_workers)
    /\ rt_spawned' = [m \in RtMailboxIds |->
                         IF m \in mailbox_ids \ mailbox_workers
                         THEN rt_spawned[m] + 1 ELSE rt_spawned[m]]
    /\ watch_request_rx' = [m \in RtMailboxIds |->
                               IF m \in mailbox_ids THEN watch_request_rx[m]
                               ELSE << >>]
    /\ wreq' = Cancel(UNION {SeqToSet(watch_request_rx[m]) :
                                m \in RtMailboxIds \ mailbox_ids})
    /\ UNCHANGED <<mailbox_ids, sub, mailbox_watch_request_rx, mailbox_changes>>
    /\ UNCHANGED notRt

\* line 67: get_mailbox_ids fails and sync_mailboxes returns the error; its
\* receivers and mailbox_workers are dropped
RtFail ==
    /\ rt_pc = "get_mailbox_ids"
    /\ rt_pc' = "returned"
    /\ mailbox_workers' = {}
    /\ running' = {}
    /\ sub' = 0
    /\ mailbox_watch_request_rx' = << >>
    /\ watch_request_rx' = [m \in RtMailboxIds |-> << >>]
    /\ wreq' = Cancel(SeqToSet(mailbox_watch_request_rx)
                         \cup UNION {SeqToSet(watch_request_rx[m]) : m \in RtMailboxIds})
    /\ UNCHANGED <<mailbox_ids, mailbox_changes, rt_spawned>>
    /\ UNCHANGED notRt

RtRoute_KeepsUnrouted ==
    /\ rt_pc = "select"
    /\ mailbox_watch_request_rx # << >>
    /\ LET r == Head(mailbox_watch_request_rx)
           m == wreq[r].mailbox_id
       IN IF m \in mailbox_workers /\ m \in running
                /\ Len(watch_request_rx[m]) < WatcherQueueCapacity
          THEN /\ mailbox_watch_request_rx' = Tail(mailbox_watch_request_rx)
               /\ watch_request_rx' = [watch_request_rx EXCEPT ![m] = Append(@, r)]
               /\ wreq' = [wreq EXCEPT ![r].status = "forwarded"]
          ELSE /\ mailbox_watch_request_rx' = Append(Tail(mailbox_watch_request_rx), r)
               /\ UNCHANGED <<watch_request_rx, wreq>>
    /\ UNCHANGED <<mailbox_ids, sub, rt_pc, mailbox_workers, running,
                   mailbox_changes, rt_spawned>>
    /\ UNCHANGED notRt

\* lines 98-111: a request is taken from the channel; without a worker for
\* its mailbox it is dropped; otherwise try_send hands it to the worker, and
\* when that fails (channel full, or closed because the task has ended) the
\* request is dropped with the error
RtRoute ==
    /\ rt_pc = "select"
    /\ mailbox_watch_request_rx # << >>
    /\ mailbox_watch_request_rx' = Tail(mailbox_watch_request_rx)
    /\ LET r == Head(mailbox_watch_request_rx)
           m == wreq[r].mailbox_id
       IN IF m \in mailbox_workers /\ m \in running
                /\ Len(watch_request_rx[m]) < WatcherQueueCapacity
          THEN /\ watch_request_rx' = [watch_request_rx EXCEPT ![m] = Append(@, r)]
               /\ wreq' = [wreq EXCEPT ![r].status = "forwarded"]
          ELSE /\ wreq' = Cancel({r})
               /\ UNCHANGED watch_request_rx
    /\ UNCHANGED <<mailbox_ids, sub, rt_pc, mailbox_workers, running,
                   mailbox_changes, rt_spawned>>
    /\ UNCHANGED notRt

\* lines 112-118: a Changes value naming "mailboxes" ends the inner loop
RtDbChange ==
    /\ rt_pc = "select"
    /\ sub > 0
    /\ sub' = sub - 1
    /\ rt_pc' = "get_mailbox_ids"
    /\ UNCHANGED <<mailbox_ids, mailbox_workers, running,
                   mailbox_watch_request_rx, watch_request_rx, wreq,
                   mailbox_changes, rt_spawned>>
    /\ UNCHANGED notRt

\* sync_mailbox, lines 178-189: the task of mailbox m takes a request from
\* its channel and answers it with state_tx.subscribe()
RtWorkerRecv(m) ==
    /\ m \in running
    /\ watch_request_rx[m] # << >>
    /\ watch_request_rx' = [watch_request_rx EXCEPT ![m] = Tail(@)]
    /\ wreq' = [wreq EXCEPT ![Head(watch_request_rx[m])].status = "subscribed",
                            ![Head(watch_request_rx[m])].by = m]
    /\ UNCHANGED <<mailbox_ids, sub, rt_pc, mailbox_workers, running,
                   mailbox_watch_request_rx, mailbox_changes, rt_spawned>>
    /\ UNCHANGED notRt

\* sync_mailbox, lines 152, 170: the task of mailbox m returns an error; its
\* receiver is dropped with the requests in it, its entry in
\* mailbox_workers stays
RtWorkerEnds(m) ==
    /\ m \in running
    /\ running' = running \ {m}
    /\ watch_request_rx' = [watch_request_rx EXCEPT ![m] = << >>]
    /\ wreq' = Cancel(SeqToSet(watch_request_rx[m]))
    /\ UNCHANGED <<mailbox_ids, sub, rt_pc, mailbox_workers,
                   mailbox_watch_request_rx, mailbox_changes, rt_spawned>>
    /\ UNCHANGED notRt

\* a step of the task sync_mailboxes
RtStep == RtGetMailboxIds \/ RtFail \/ RtRoute \/ RtDbChange

NextRouter ==
    \/ \E r \in WatchCommands, m \in RtMailboxIds : RtSend(r, m)
    \/ \E ids \in SUBSET RtMailboxIds : RtStoreChange(ids)
    \/ RtGetMailboxIds
    \/ RtFail
    \/ RtRoute
    \/ RtDbChange
    \/ \E m \in RtMailboxIds : RtWorkerRecv(m)
    \/ \E m \in RtMailboxIds : RtWorkerEnds(m)

InitRouter ==
    /\ InitApi(TRUE)
    /\ InitMl(NoMailboxes)
    /\ InitEm(NoEmails)
    /\ InitDr
    /\ InitSa(NoAccounts)
    /\ InitPt
    /\ InitFl(0)
    /\ InitCp(<< >>, 1)
    /\ InitWc
    /\ \E ids \in SUBSET RtMailboxIds : InitRt(ids)

\* tokio runs the task sync_mailboxes whenever one of the futures it awaits
\* is ready
SpecRouter == InitRouter /\ [][NextRouter]_vars /\ WF_vars(RtStep)

(***************************************************************************)
(* Part VII.  One sync_mailbox task with the receiver of the push topic    *)
(* it was given: the topic keeps the last PushCapacity pushes, and a       *)
(* receiver that has fallen further behind gets Err(Lagged) from recv().   *)
(***************************************************************************)
\* the multiplexer publishes a push on notification_sender
PtPublish ==
    /\ pt_pc # "returned"
    /\ IF pt_unread = PushCapacity
       THEN /\ pt_lagged' = TRUE
            /\ UNCHANGED pt_unread
       ELSE /\ pt_unread' = pt_unread + 1
            /\ UNCHANGED pt_lagged
    /\ UNCHANGED <<pt_pc, pt_receivers, pt_armed, pt_state, pt_requests,
                   pt_issued, pt_end, pt_closed>>
    /\ UNCHANGED notPt

\* sync_mailboxes hands the task a watcher request
PtWatchIssue ==
    /\ pt_pc # "returned"
    /\ ~pt_closed
    /\ pt_issued < MaxTopicWatchers
    /\ pt_requests < WatcherQueueCapacity
    /\ pt_issued' = pt_issued + 1
    /\ pt_requests' = pt_requests + 1
    /\ UNCHANGED <<pt_pc, pt_unread, pt_lagged, pt_receivers, pt_armed,
                   pt_state, pt_end, pt_closed>>
    /\ UNCHANGED notPt

\* a watcher drops its receiver of state_tx
PtWatcherGone ==
    /\ pt_receivers > 1
    /\ pt_receivers' = pt_receivers - 1
    /\ UNCHANGED <<pt_pc, pt_unread, pt_lagged, pt_armed, pt_state,
                   pt_requests, pt_issued, pt_end, pt_closed>>
    /\ UNCHANGED notPt

\* lines 178-196: a watcher request is received and answered with
\* state_tx.subscribe(); InProgress is sent and sync_mailbox_once is called
PtWatchRequest ==
    /\ pt_pc = "select"
    /\ pt_requests > 0
    /\ pt_requests' = pt_requests - 1
    /\ pt_receivers' = pt_receivers + 1
    /\ pt_state' = "InProgress"
    /\ pt_pc' = "sync_once"
    /\ pt_armed' = FALSE
    /\ UNCHANGED <<pt_unread, pt_lagged, pt_issued, pt_end, pt_closed>>
    /\ UNCHANGED notPt

\* lines 196-207: sync_mailbox_once returns; UpToDate or Error is sent and
\* the loop polls wait_for_push anew
PtSyncOnce(ok) ==
    /\ pt_pc = "sync_once"
    /\ pt_state' = IF ok THEN "UpToDate" ELSE "Error"
    /\ pt_pc' = "select"
    /\ pt_armed' = (pt_receivers > 1)
    /\ UNCHANGED <<pt_unread, pt_lagged, pt_receivers, pt_requests, pt_issued,
                   pt_end, pt_closed>>
    /\ UNCHANGED notPt

PtEnds(why) ==
    /\ pt_pc' = "returned"
    /\ pt_end' = why
    /\ pt_armed' = FALSE
    /\ pt_unread' = 0
    /\ pt_lagged' = FALSE
    /\ pt_requests' = 0
    /\ UNCHANGED <<pt_receivers, pt_state, pt_issued, pt_closed>>
    /\ UNCHANGED notPt

\* lines 148-176: email_notification.recv().await? in wait_for_push.  A
\* receiver that lagged gets Err(Lagged), which `?` and line 170 turn into
\* the return value of sync_mailbox.  Otherwise the oldest unread push is
\* received; one that is a StateChange with an Email entry (email) ends the
\* wait, and the task syncs if receiver_count() is still 2 or more.
PtRecv(email) ==
    /\ pt_pc = "select"
    /\ pt_armed
    /\ pt_unread > 0
    /\ IF pt_lagged
       THEN PtEnds("push_lagged")
       ELSE /\ pt_unread' = pt_unread - 1
            /\ IF ~email
               THEN UNCHANGED <<pt_pc, pt_armed, pt_state>>
               ELSE IF pt_receivers < 2
               THEN /\ pt_armed' = FALSE
                    /\ UNCHANGED <<pt_pc, pt_state>>
               ELSE /\ pt_state' = "InProgress"
                    /\ pt_pc' = "sync_once"
                    /\ pt_armed' = FALSE
            /\ UNCHANGED <<pt_lagged, pt_receivers, pt_requests, pt_issued,
                           pt_end, pt_closed>>
            /\ UNCHANGED notPt

\* sync_mailboxes.rs:72, 90: the entry of the mailbox leaves mailbox_workers
\* and the only Sender of the channel is dropped with it; the requests
\* already in the channel stay there for the receiver
PtSenderDropped ==
    /\ pt_pc # "returned"
    /\ ~pt_closed
    /\ pt_closed' = TRUE
    /\ UNCHANGED <<pt_pc, pt_unread, pt_lagged, pt_receivers, pt_armed,
                   pt_state, pt_requests, pt_issued, pt_end>>
    /\ UNCHANGED notPt

PtChannelClosed_KeepsRunning ==
    /\ pt_pc = "select"
    /\ pt_closed
    /\ pt_requests = 0
    /\ pt_end' = "channel_closed"
    /\ pt_state' = "InProgress"
    /\ pt_pc' = "sync_once"
    /\ pt_armed' = FALSE
    /\ UNCHANGED <<pt_unread, pt_lagged, pt_receivers, pt_requests, pt_issued,
                   pt_closed>>
    /\ UNCHANGED notPt

\* lines 179-182: watcher_requests.recv() returns None, the channel is
\* closed and empty, and the task returns Ok
PtChannelClosed ==
    /\ pt_pc = "select"
    /\ pt_closed
    /\ pt_requests = 0
    /\ PtEnds("channel_closed")

\* the owner drops the AutoAbortHandle of the task
PtAborted ==
    /\ pt_pc # "returned"
    /\ PtEnds("aborted")

NextPushTopic ==
    \/ PtPublish
    \/ PtWatchIssue
    \/ PtWatcherGone
    \/ PtWatchRequest
    \/ \E ok \in BOOLEAN : PtSyncOnce(ok)
    \/ \E email \in BOOLEAN : PtRecv(email)
    \/ PtSenderDropped
    \/ PtChannelClosed
    \/ PtAborted

InitPushTopic ==
    /\ InitApi(TRUE)
    /\ InitMl(NoMailboxes)
    /\ InitEm(NoEmails)
    /\ InitDr
    /\ InitSa(NoAccounts)
    /\ InitRt({})
    /\ InitPt
    /\ InitFl(0)
    /\ InitCp(<< >>, 1)
    /\ InitWc

SpecPushTopic == InitPushTopic /\ [][NextPushTopic]_vars

(***************************************************************************)
(* Part VIII.  The while loop of sync_mailbox_once (lines 261-273) and the *)
(* write of the cursor after it (line 283), for a list of ids of any       *)
(* length.  Every call succeeds and the server returns every email asked   *)
(* for.                                                                    *)
(***************************************************************************)
\* updated.drain(0..).take(200).collect_vec(): the first GetBatch elements
Take(v) == SubSeq(v, 1, IF Len(v) < GetBatch THEN Len(v) ELSE GetBatch)

\* what is left of the Vec when the Drain over 0.. has been dropped
Drained(v) == << >>

\* lines 261-266: get_emails is called with the ids taken from updated
FlGetEmails ==
    /\ fl_pc = "while"
    /\ fl_updated # << >>
    /\ fl_calls' = Append(fl_calls, Take(fl_updated))
    /\ fl_emails' = SeqToSet(Take(fl_updated))
    /\ fl_updated' = Drained(fl_updated)
    /\ fl_pc' = "update_emails"
    /\ UNCHANGED <<fl_stored, fl_ids>>
    /\ UNCHANGED notFl

\* lines 270-272: repo.update_emails with the emails returned
FlUpdateEmails ==
    /\ fl_pc = "update_emails"
    /\ fl_stored' = fl_stored \cup fl_emails
    /\ fl_pc' = "while"
    /\ UNCHANGED <<fl_updated, fl_emails, fl_ids, fl_calls>>
    /\ UNCHANGED notFl

\* lines 261, 283: updated is empty; set_mailbox_email_sync_state
FlSetState ==
    /\ fl_pc = "while"
    /\ fl_updated = << >>
    /\ fl_pc' = "done"
    /\ UNCHANGED <<fl_updated, fl_emails, fl_stored, fl_ids, fl_calls>>
    /\ UNCHANGED notFl

NextFetchLoop ==
    \/ FlGetEmails
    \/ FlUpdateEmails
    \/ FlSetState

InitFetchLoop ==
    /\ InitApi(TRUE)
    /\ InitMl(NoMailboxes)
    /\ InitEm(NoEmails)
    /\ InitDr
    /\ InitSa(NoAccounts)
    /\ InitRt({})
    /\ InitPt
    /\ InitCp(<< >>, 1)
    /\ InitWc
    /\ \E n \in 0 .. MaxFetch : InitFl(n)

SpecFetchLoop == InitFetchLoop /\ [][NextFetchLoop]_vars

(***************************************************************************)
(* Part IX.  The email_changes loop of sync_mailbox_once (lines 226-239).  *)
(* The server answers Email/changes(since) with the changes that follow    *)
(* the state `since`, at most cp_max_changes of them, the state they lead  *)
(* to as newState, and hasMoreChanges when later changes remain.  Change i *)
(* is about the email with id i.                                           *)
(***************************************************************************)
ChangeKinds == {"created", "updated", "destroyed"}

\* the state the server's current state is
CpServerState == Len(cp_log) + 1

\* the response to Email/changes(since)
EmailChangesResponse(since) ==
    LET to == IF since + cp_max_changes < CpServerState
              THEN since + cp_max_changes ELSE CpServerState
        ids(kind) == {i \in since .. to - 1 : cp_log[i] = kind}
    IN [created |-> ids("created"), updated |-> ids("updated"),
        destroyed |-> ids("destroyed"), new_state |-> to,
        has_more_changes |-> to < CpServerState]

\* lines 227-238: one pass of the loop: email_changes(last_state.clone()),
\* the three extends, and the break with new_state when the response has
\* no more changes
CpEmailChanges ==
    /\ cp_pc = "email_changes"
    /\ LET response == EmailChangesResponse(cp_last_state)
       IN /\ cp_updated' = cp_updated \cup response.updated \cup response.created
          /\ cp_deleted' = cp_deleted \cup response.destroyed
          /\ IF ~response.has_more_changes
             THEN /\ cp_new_state' = response.new_state
                  /\ cp_pc' = "fetch"
             ELSE UNCHANGED <<cp_new_state, cp_pc>>
    /\ UNCHANGED <<cp_log, cp_max_changes, cp_last_state, cp_cursor>>
    /\ UNCHANGED notCp

\* lines 261-287: the emails of updated are fetched and stored, those of
\* deleted are deleted, and new_state is written as the cursor
CpStore ==
    /\ cp_pc = "fetch"
    /\ cp_cursor' = cp_new_state
    /\ cp_pc' = "done"
    /\ UNCHANGED <<cp_log, cp_max_changes, cp_last_state, cp_updated,
                   cp_deleted, cp_new_state>>
    /\ UNCHANGED notCp

NextChangesPaging ==
    \/ CpEmailChanges
    \/ CpStore

InitChangesPaging ==
    /\ InitApi(TRUE)
    /\ InitMl(NoMailboxes)
    /\ InitEm(NoEmails)
    /\ InitDr
    /\ InitSa(NoAccounts)
    /\ InitRt({})
    /\ InitPt
    /\ InitFl(0)
    /\ \E n \in 1 .. MaxLog, max_changes \in 1 .. MaxLog :
          \E log \in [1 .. n -> ChangeKinds] : InitCp(log, max_changes)
    /\ InitWc

\* sync_mailbox_once is a future that is polled until it completes
SpecChangesPaging ==
    InitChangesPaging /\ [][NextChangesPaging]_vars /\ WF_vars(NextChangesPaging)

(***************************************************************************)
(* Part X.  The clients that watch one mailbox.  The handler of the route  *)
(* (api/sync_mailbox.rs:18-44) makes a watch channel and sends its sender  *)
(* in a WatchMailboxSyncCommand; sync_account spawns                       *)
(* handle_watch_mailbox_command for it (sync_account.rs:54-59), which asks *)
(* sync_mailbox for a receiver of its state_tx and forwards every value    *)
(* (sync_mailboxes.rs:26-46).  The tasks run on a multi-threaded runtime:  *)
(* each step between two awaits or two channel operations is a step here.  *)
(***************************************************************************)
\* state_tx.receiver_count() of sync_mailbox: _state_rx and the receivers
\* made by state_tx.subscribe() that have not been dropped
ReceiverCount == 1 + Cardinality(wc_rx)

\* api/sync_mailbox.rs:18-32 with sync_account.rs:54-59 and
\* sync_mailboxes.rs:33-38, 98-110: client c opens the route; its channel
\* starts at NotStarted, and its watcher request reaches the channel of
\* sync_mailbox
WsOpen(c) ==
    /\ fw_pc[c] = "idle"
    /\ \A d \in Clients : d < c => fw_pc[d] # "idle"
    /\ Len(wc_requests) < WatcherQueueCapacity
    /\ ws_open' = ws_open \cup {c}
    /\ fw_pc' = [fw_pc EXCEPT ![c] = "rx_await"]
    /\ wc_requests' = Append(wc_requests, c)
    /\ UNCHANGED <<wc_pc, wc_state, wc_armed, wc_unread, wc_rx, wc_unseen,
                   ws_state, ws_unseen, observed, wc_first, wc_pushes>>
    /\ UNCHANGED notWc

\* api/sync_mailbox.rs:35-43: the websocket of client c is gone and the
\* future that holds state_rx is dropped
WsClose(c) ==
    /\ c \in ws_open
    /\ ws_open' = ws_open \ {c}
    /\ ws_unseen' = ws_unseen \ {c}
    /\ UNCHANGED <<wc_pc, wc_state, wc_armed, wc_unread, wc_requests, wc_rx,
                   wc_unseen, fw_pc, ws_state, observed, wc_first, wc_pushes>>
    /\ UNCHANGED notWc

Settled(v) == v \in {"UpToDate", "Error"}

\* api/sync_mailbox.rs:36-37: state_rx.changed() returns and the handler
\* reads the value that state_rx holds now
WsObserve(c) ==
    /\ c \in ws_open
    /\ c \in ws_unseen
    /\ ws_unseen' = ws_unseen \ {c}
    /\ observed' = IF c = 1 /\ \A i \in 1 .. Len(observed) : ~Settled(observed[i])
                   THEN Append(observed, ws_state[c]) ELSE observed
    /\ UNCHANGED <<wc_pc, wc_state, wc_armed, wc_unread, wc_requests, wc_rx,
                   wc_unseen, fw_pc, ws_open, ws_state, wc_first, wc_pushes>>
    /\ UNCHANGED notWc

\* sync_mailboxes.rs:40: rx.await returns the receiver sync_mailbox sent
FwReceiver(c) ==
    /\ fw_pc[c] = "rx_await"
    /\ c \in wc_rx
    /\ fw_pc' = [fw_pc EXCEPT ![c] = "send"]
    /\ UNCHANGED <<wc_pc, wc_state, wc_armed, wc_unread, wc_requests, wc_rx,
                   wc_unseen, ws_open, ws_state, ws_unseen, observed, wc_first,
                   wc_pushes>>
    /\ UNCHANGED notWc

\* what follows state_tx.send(v) of the forwarding task of client c
FwSent(c, v) ==
    /\ IF c \in ws_open
       THEN /\ ws_state' = [ws_state EXCEPT ![c] = v]
            /\ ws_unseen' = ws_unseen \cup {c}
            /\ fw_pc' = [fw_pc EXCEPT ![c] = "changed"]
            /\ UNCHANGED <<wc_rx, wc_unseen>>
       ELSE /\ fw_pc' = [fw_pc EXCEPT ![c] = "ended"]
            /\ wc_rx' = wc_rx \ {c}
            /\ wc_unseen' = wc_unseen \ {c}
            /\ UNCHANGED <<ws_state, ws_unseen>>
    /\ UNCHANGED <<wc_pc, wc_state, wc_armed, wc_unread, wc_requests, ws_open,
                   observed, wc_first, wc_pushes>>
    /\ UNCHANGED notWc

FwSend_Initial(c) ==
    /\ fw_pc[c] = "send"
    /\ FwSent(c, "NotStarted")

\* sync_mailboxes.rs:43: state_tx.send(rx.borrow().clone())?.  The value
\* sync_mailbox holds now is sent to the client's channel; with state_rx
\* dropped the send fails, the task returns and rx is dropped with it
FwSend(c) ==
    /\ fw_pc[c] = "send"
    /\ FwSent(c, wc_state)

\* sync_mailboxes.rs:44: rx.changed().await returns once state_tx of
\* sync_mailbox holds a value rx has not seen; nothing else ends the wait
FwChanged(c) ==
    /\ fw_pc[c] = "changed"
    /\ c \in wc_unseen
    /\ wc_unseen' = wc_unseen \ {c}
    /\ fw_pc' = [fw_pc EXCEPT ![c] = "send"]
    /\ UNCHANGED <<wc_pc, wc_state, wc_armed, wc_unread, wc_requests, wc_rx,
                   ws_open, ws_state, ws_unseen, observed, wc_first, wc_pushes>>
    /\ UNCHANGED notWc

\* the multiplexer publishes a StateChange with an Email entry
WcPublish ==
    /\ wc_pushes < MaxEmailPushes
    /\ wc_pushes' = wc_pushes + 1
    /\ wc_unread' = wc_unread + 1
    /\ UNCHANGED <<wc_pc, wc_state, wc_armed, wc_requests, wc_rx, wc_unseen,
                   fw_pc, ws_open, ws_state, ws_unseen, observed, wc_first>>
    /\ UNCHANGED notWc

\* sync_mailboxes.rs:178-189: sync_mailbox takes a watcher request and
\* answers it with state_tx.subscribe(), a receiver that has seen the
\* value state_tx holds
WcWatchRequest ==
    /\ wc_pc = "select"
    /\ wc_requests # << >>
    /\ wc_requests' = Tail(wc_requests)
    /\ wc_rx' = wc_rx \cup {Head(wc_requests)}
    /\ wc_pc' = "in_progress"
    /\ wc_armed' = FALSE
    /\ UNCHANGED <<wc_state, wc_unread, wc_unseen, fw_pc, ws_open, ws_state,
                   ws_unseen, observed, wc_first, wc_pushes>>
    /\ UNCHANGED notWc

\* sync_mailboxes.rs:148-176: wait_for_push, which found
\* receiver_count() > 1 when it was first polled, receives the push;
\* with receiver_count() < 2 now the loop continues without syncing
WcPush ==
    /\ wc_pc = "select"
    /\ wc_armed
    /\ wc_unread > 0
    /\ wc_unread' = wc_unread - 1
    /\ wc_armed' = FALSE
    /\ wc_pc' = IF ReceiverCount < 2 THEN "select" ELSE "in_progress"
    /\ UNCHANGED <<wc_state, wc_requests, wc_rx, wc_unseen, fw_pc, ws_open,
                   ws_state, ws_unseen, observed, wc_first, wc_pushes>>
    /\ UNCHANGED notWc

\* state_tx.send(v) of sync_mailbox: no receiver has seen v
WcSend(v) ==
    /\ wc_state' = v
    /\ wc_unseen' = wc_rx

\* sync_mailboxes.rs:192-196: InProgress is sent and sync_mailbox_once is
\* called
WcInProgress ==
    /\ wc_pc = "in_progress"
    /\ WcSend("InProgress")
    /\ wc_pc' = "sync_once"
    /\ UNCHANGED <<wc_armed, wc_unread, wc_requests, wc_rx, fw_pc, ws_open,
                   ws_state, ws_unseen, observed, wc_first, wc_pushes>>
    /\ UNCHANGED notWc

\* sync_mailboxes.rs:196-207: sync_mailbox_once returns; UpToDate or Error
\* is sent and the loop polls wait_for_push anew
WcSyncOnce(ok) ==
    /\ wc_pc = "sync_once"
    /\ WcSend(IF ok THEN "UpToDate" ELSE "Error")
    /\ wc_first' = IF wc_first # "none" THEN wc_first
                   ELSE IF ok THEN "ok" ELSE "failed"
    /\ wc_pc' = "select"
    /\ wc_armed' = (ReceiverCount > 1)
    /\ UNCHANGED <<wc_unread, wc_requests, wc_rx, fw_pc, ws_open, ws_state,
                   ws_unseen, observed, wc_pushes>>
    /\ UNCHANGED notWc

NextWatchers ==
    \/ \E c \in Clients : WsOpen(c)
    \/ \E c \in Clients : WsClose(c)
    \/ \E c \in Clients : WsObserve(c)
    \/ \E c \in Clients : FwReceiver(c)
    \/ \E c \in Clients : FwSend(c)
    \/ \E c \in Clients : FwChanged(c)
    \/ WcPublish
    \/ WcWatchRequest
    \/ WcPush
    \/ WcInProgress
    \/ \E ok \in BOOLEAN : WcSyncOnce(ok)

InitWatchers ==
    /\ InitApi(TRUE)
    /\ InitMl(NoMailboxes)
    /\ InitEm(NoEmails)
    /\ InitDr
    /\ InitLater

SpecWatchers == InitWatchers /\ [][NextWatchers]_vars

(***************************************************************************)
(* Properties of Part V                                                    *)
(***************************************************************************)
\* C24: at the end of every iteration of sync_accounts the accounts with
\* running tasks (the tracked ones) are the accounts of the table, each
\* tracked with the stored snapshot; only an account that was not tracked
\* with that snapshot got new tasks; and sync_accounts goes on to wait for
\* the next change, whatever the accounts' settings are.
C24_SupervisorTracksAccounts ==
    [][(sa_pc = "update_states" /\ sa_pc' # "update_states") =>
          /\ sa_pc' = "recv"
          /\ \A id \in AccountIds :
                /\ states'[id] = accounts'[id]
                /\ sa_spawned'[id] =
                      IF accounts[id] = NoAccount \/ states[id] = accounts[id]
                      THEN sa_spawned[id] ELSE sa_spawned[id] + 1]_vars

\* C25: a mutation that changed a row of a table broadcast a Changes value
\* naming that table, and a subscriber receives the values in the order of
\* their broadcast.
C25_EveryMutationBroadcasts ==
    /\ \A table \in last_mutation.changed : table \in last_mutation.tables
    /\ \A i, j \in 1 .. Len(received) : i < j => received[i] < received[j]

(***************************************************************************)
(* Properties of Part VI                                                   *)
(***************************************************************************)
\* the step in which sync_mailboxes takes request r from its channel
Routed(r) ==
    /\ mailbox_watch_request_rx # << >>
    /\ Head(mailbox_watch_request_rx) = r
    /\ mailbox_watch_request_rx' = Tail(mailbox_watch_request_rx)
    /\ rt_pc' = "select"

\* C26: a request that sync_mailboxes takes from its channel while the
\* mailbox of the request has no running sync_mailbox is cancelled in that
\* step and enters no worker's channel; one whose mailbox has a running
\* sync_mailbox with room in its channel enters the channel of that worker
\* and no other, and only that worker ever answers it.  No request stays in the channel of
\* sync_mailboxes forever.
C26_WatchRequestRouting ==
    /\ [][\A r \in WatchCommands : Routed(r) =>
             LET m == wreq[r].mailbox_id
             IN /\ (m \notin mailbox_workers \/ m \notin running) =>
                      /\ wreq'[r].status = "cancelled"
                      /\ watch_request_rx' = watch_request_rx
                /\ (m \in mailbox_workers /\ m \in running
                       /\ Len(watch_request_rx[m]) < WatcherQueueCapacity) =>
                      /\ wreq'[r].status = "forwarded"
                      /\ watch_request_rx' =
                            [watch_request_rx EXCEPT ![m] = Append(@, r)]]_vars
    /\ [](\A r \in WatchCommands :
             /\ wreq[r].status = "subscribed" => wreq[r].by = wreq[r].mailbox_id
             /\ \A m \in RtMailboxIds :
                   r \in SeqToSet(watch_request_rx[m]) => m = wreq[r].mailbox_id)
    /\ (\E r \in WatchCommands : wreq[r].status = "sent")
          ~> (\A r \in WatchCommands : wreq[r].status # "sent")

\* request 1 named a mailbox that had no worker and was cancelled by the
\* router, request 2 named a mailbox with a running worker and was answered
\* by it
C26_Witness ==
    /\ rt_pc = "select"
    /\ wreq[1].status = "cancelled"
    /\ wreq[1].mailbox_id \notin mailbox_workers
    /\ wreq[2].status = "subscribed"
    /\ wreq[2].by = wreq[2].mailbox_id
    /\ wreq[2].mailbox_id \in running

\* sync_mailboxes goes through lines 65-94 once
Reconciles == rt_pc = "get_mailbox_ids" /\ rt_pc' = "select"

C27_SyncerEndsOnlyWhenClosedOrAborted ==
    pt_end \in {"none", "channel_closed", "aborted"}

\* C33: when sync_mailbox finds its watcher-requests channel closed it
\* terminates: it returns without publishing a state, and from then on it
\* starts no sync_mailbox_once (the only place where JMAP requests are
\* issued) and publishes no state.
C33_ClosedChannelTerminatesSyncer ==
    /\ [](pt_end = "channel_closed" => (pt_pc = "returned" /\ pt_closed))
    /\ [][(pt_end' = "channel_closed" \/ pt_end = "channel_closed") =>
              /\ pt_pc' = "returned"
              /\ pt_state' = pt_state]_vars

\* the task has ended on the closed channel after a sync, with a watcher
\* still holding a receiver of state_tx
C33_Witness ==
    /\ pt_end = "channel_closed"
    /\ pt_state = "UpToDate"
    /\ pt_receivers = 2

(***************************************************************************)
(* Properties of Part VIII                                                 *)
(***************************************************************************)
\* C28: whatever the length of the list of ids to fetch, when the cursor is
\* written every id of the list has been asked for in exactly one
\* get_emails call, no call carried more than 200 ids, and the emails of
\* every call have been stored.
C28_EveryIdFetchedOnce ==
    fl_pc = "done" =>
        /\ \A id \in fl_ids :
              Cardinality({c \in 1 .. Len(fl_calls) :
                              \E i \in 1 .. Len(fl_calls[c]) : fl_calls[c][i] = id}) = 1
        /\ \A c \in 1 .. Len(fl_calls) : Len(fl_calls[c]) <= GetBatch
        /\ \A c \in 1 .. Len(fl_calls) : SeqToSet(fl_calls[c]) \subseteq fl_stored

(***************************************************************************)
(* Properties of Part IX                                                   *)
(***************************************************************************)
\* C29: with a cursor in the Store, however many pages the server needs
\* for the changes since the cursor, sync_mailbox_once comes to its end,
\* and then updated holds the created and updated ids of all the changes,
\* deleted the destroyed ones, and the cursor is the server's state.
C29_PagedChangesTerminate ==
    /\ <>(cp_pc = "done")
    /\ [](cp_pc = "done" =>
             /\ cp_updated = {i \in 1 .. Len(cp_log) :
                                 cp_log[i] \in {"created", "updated"}}
             /\ cp_deleted = {i \in 1 .. Len(cp_log) : cp_log[i] = "destroyed"}
             /\ cp_cursor = CpServerState)

(***************************************************************************)
(* Properties of Part III, continued                                       *)
(***************************************************************************)
\* C30: sync_mailbox_once asks get_emails only for ids that have no row in
\* emails: an id that email_changes or query_emails reported and whose
\* email is in the Store already is not fetched again.
C30_OnlyMissingEmailsFetched ==
    [][\A m \in SyncedMailboxes :
          (sm_pc[m] = "get" /\ sm_pc'[m] = "upsert") =>
              \A id \in EIds(e_list'[m]) : emails[id] = NoEmail]_vars

(***************************************************************************)
(* Properties of Part X                                                    *)
(***************************************************************************)
\* every client that opened the route has dropped its state_rx, no watcher
\* request is waiting, and every forwarding task has run as far as it can
LastWatcherClosed ==
    /\ \E c \in Clients : fw_pc[c] # "idle"
    /\ ws_open = {}
    /\ wc_requests = << >>
    /\ \A c \in Clients :
          \/ fw_pc[c] \in {"idle", "ended"}
          \/ fw_pc[c] = "changed" /\ c \notin wc_unseen

\* C35: once the last watcher of the mailbox has closed its forwarded state
\* channel, sync_mailbox starts no sync_mailbox_once until a new watcher
\* request arrives, whatever pushes arrive in between.
C35_NoSyncAfterLastWatcherClosed ==
    [][(LastWatcherClosed /\ wc_pc = "select") => wc_pc' = "select"]_vars

\* the sequence s without the elements that repeat their predecessor
Collapse(s) ==
    LET F[i \in 0 .. Len(s)] ==
            IF i = 0 THEN << >>
            ELSE IF i > 1 /\ s[i] = s[i - 1] THEN F[i - 1]
            ELSE Append(F[i - 1], s[i])
    IN F[Len(s)]

\* the order in which sync_mailbox sends the states of one sync
Rank(v) == IF v = "NotStarted" THEN 0 ELSE IF v = "InProgress" THEN 1 ELSE 2

\* client 1 is the only client that ever asked and no push was published:
\* sync_mailbox has started no sync but the first
OneSync == wc_pushes = 0 /\ fw_pc[2] = "idle"

\* the forwarding task and the handler of client 1 have nothing left to do
CaughtUp ==
    /\ 1 \in ws_open
    /\ fw_pc[1] = "changed"
    /\ 1 \notin wc_unseen
    /\ 1 \notin ws_unseen

====
